---- MODULE Spec2Model ----
(***************************************************************************)
(* Model of Ogre2BoundingBoxCamera (gz-rendering, ogre2 bounding box       *)
(* camera): the Cohen-Sutherland viewport clipper, the identifier-buffer   *)
(* scanner, the per-object box builders, the multi-link merge and the      *)
(* PreRender / PostRender frame cycle.                                     *)
(*                                                                         *)
(* Numbers of type double are modelled as exact rationals <<n, d>> with    *)
(* d > 0 and gcd(n, d) = 1; uint32_t values are naturals modulo 2^32.      *)
(***************************************************************************)
EXTENDS Integers, Sequences, FiniteSets, TLC

VARIABLES
  clip,         \* activation record of ClipToViewPort / AddToViewportLines
  lines,        \* the _lines vector handed to AddToViewportLines
  dataPtr,      \* Ogre2BoundingBoxCameraPrivate: type, outputBoxes, scratch maps, buffer
  connections,  \* newBoundingBoxes.ConnectionCount()
  texture,      \* contents of ogreRenderTexture (the rendered identifier frame)
  ogreIdName,   \* materialSwitcher->ogreIdName: ogre id -> parent name
  items,        \* the Ogre items of the scene manager, in iteration order
  scan,         \* what the last processed frame computed before the scratch maps were cleared
  op,           \* "PostRender" when PostRender is the operation that returned last
  merge,        \* activation record of MergeBoxes2D called on a group of its own
  draw,         \* activation record of DrawBoundingBox / DrawLine and the image _data
  codec         \* an ogre id on its way through the id channels of a pixel

vars ==
  <<clip, lines, dataPtr, connections, texture, ogreIdName, items, scan, op,
    merge, draw, codec>>

----------------------------------------------------------------------------
(* Bounds of the model *)

\* endpoint coordinates of the clipped segments range over -MaxCoord..MaxCoord
MaxCoord == 2

\* PostRender is not called again once outputBoxes holds this many boxes
MaxOutputBoxes == 2

\* subscribers connected to the new-bounding-boxes event at one time
MaxSubscribers == 1

\* passes through the loop of ClipToViewPort that are counted
MaxIter == 5

\* centres (1..MaxCentre) and sizes (0..MaxSize) of the boxes handed to
\* MergeBoxes2D on its own
MaxCentre == 3

MaxSize == 2

\* projected mesh corners range over -MaxNdc..MaxNdc in clip coordinates
MaxNdc == 2

\* the image size SetImageWidth / SetImageHeight set before the drawing calls
CanvasWidth == 4

CanvasHeight == 3

\* sizes of the drawn boxes range over 0..MaxDrawSize
MaxDrawSize == 3

----------------------------------------------------------------------------
(* double arithmetic, exact *)

Abs(n) == IF n < 0 THEN -n ELSE n

Min(a, b) == IF a < b THEN a ELSE b

Max(a, b) == IF a > b THEN a ELSE b

\* In the operators of this section written CHOOSE r \in {F(x, y) : ...} : TRUE
\* the operands are evaluated once, to x and y, before F is applied to them.

RECURSIVE GcdOf(_, _)
GcdOf(a, b) ==
  IF b = 0 THEN a
  ELSE CHOOSE r \in {GcdOf(x, y) : x \in {b}, y \in {a % b}} : TRUE

Gcd(a, b) == CHOOSE r \in {GcdOf(x, y) : x \in {a}, y \in {b}} : TRUE

\* n/d in lowest terms with a positive denominator (d # 0)
Lowest(n, d) ==
  LET g == Gcd(Abs(n), Abs(d))
      s == IF d < 0 THEN -1 ELSE 1
  IN  <<(s * n) \div g, (s * d) \div g>>

\* the rational n/d
Rat(n, d) == CHOOSE r \in {Lowest(x, y) : x \in {n}, y \in {d}} : TRUE

I(n) == <<n, 1>>

\* a double that is not finite, written as a fraction with denominator 0
NaN == <<0, 0>>

IsNaN(a) == a[2] = 0

Sum(a, b) == IF IsNaN(a) \/ IsNaN(b) THEN NaN
             ELSE Rat(a[1] * b[2] + b[1] * a[2], a[2] * b[2])

Difference(a, b) == IF IsNaN(a) \/ IsNaN(b) THEN NaN
                    ELSE Rat(a[1] * b[2] - b[1] * a[2], a[2] * b[2])

Product(a, b) == IF IsNaN(a) \/ IsNaN(b) THEN NaN
                 ELSE Rat(a[1] * b[1], a[2] * b[2])

\* a division by zero yields a non-finite double
Quotient(a, b) == IF IsNaN(a) \/ IsNaN(b) THEN NaN
                  ELSE IF b[1] = 0 THEN NaN
                  ELSE Rat(a[1] * b[2], a[2] * b[1])

\* comparisons with a NaN operand are false
Less(a, b) == ~IsNaN(a) /\ ~IsNaN(b) /\ a[1] * b[2] < b[1] * a[2]

LessOrEqual(a, b) == ~IsNaN(a) /\ ~IsNaN(b) /\ a[1] * b[2] <= b[1] * a[2]

RAdd(a, b) == CHOOSE r \in {Sum(x, y) : x \in {a}, y \in {b}} : TRUE

RSub(a, b) == CHOOSE r \in {Difference(x, y) : x \in {a}, y \in {b}} : TRUE

RMul(a, b) == CHOOSE r \in {Product(x, y) : x \in {a}, y \in {b}} : TRUE

RDiv(a, b) == CHOOSE r \in {Quotient(x, y) : x \in {a}, y \in {b}} : TRUE

RLt(a, b) == CHOOSE r \in {Less(x, y) : x \in {a}, y \in {b}} : TRUE

RGt(a, b) == RLt(b, a)

RLe(a, b) == CHOOSE r \in {LessOrEqual(x, y) : x \in {a}, y \in {b}} : TRUE

\* math::Vector2d
Vec2(x, y) == <<x, y>>

Vector2dNaN == <<NaN, NaN>>

IsFinite(p) == ~IsNaN(p[1]) /\ ~IsNaN(p[2])

----------------------------------------------------------------------------
(* ViewportClipper *)

kInside == 0
kLeft == 1
kRight == 2
kBottom == 4
kTop == 8

\* bit of weight k (a power of two) of the outcode n
HasBit(n, k) == (n \div k) % 2 = 1

\* n & m on 4-bit outcodes
BitAnd(n, m) ==
  (IF HasBit(n, 1) /\ HasBit(m, 1) THEN 1 ELSE 0)
  + (IF HasBit(n, 2) /\ HasBit(m, 2) THEN 2 ELSE 0)
  + (IF HasBit(n, 4) /\ HasBit(m, 4) THEN 4 ELSE 0)
  + (IF HasBit(n, 8) /\ HasBit(m, 8) THEN 8 ELSE 0)

\* n | m on 4-bit outcodes
BitOr(n, m) ==
  (IF HasBit(n, 1) \/ HasBit(m, 1) THEN 1 ELSE 0)
  + (IF HasBit(n, 2) \/ HasBit(m, 2) THEN 2 ELSE 0)
  + (IF HasBit(n, 4) \/ HasBit(m, 4) THEN 4 ELSE 0)
  + (IF HasBit(n, 8) \/ HasBit(m, 8) THEN 8 ELSE 0)

\* the outcode with <= for <: a point on the boundary counts as outside
LocationBoundaryOutside(_bounds, _x, _y) ==
  (IF RLe(_x, _bounds[1]) THEN kLeft
   ELSE IF RLe(_bounds[3], _x) THEN kRight ELSE kInside)
  + (IF RLe(_y, _bounds[2]) THEN kBottom
     ELSE IF RLe(_bounds[4], _y) THEN kTop ELSE kInside)

\* _bounds = <<xmin, ymin, xmax, ymax>>
LocationRelativeToViewPort(_bounds, _x, _y) ==
  (IF RLt(_x, _bounds[1]) THEN kLeft
   ELSE IF RGt(_x, _bounds[3]) THEN kRight ELSE kInside)
  + (IF RLt(_y, _bounds[2]) THEN kBottom
     ELSE IF RGt(_y, _bounds[4]) THEN kTop ELSE kInside)

\* the locals of ClipToViewPort before its loop is entered
ClipEnter(_bounds, _p0, _p1) ==
  [bounds |-> _bounds, p0 |-> _p0, p1 |-> _p1,
   x0 |-> _p0[1], y0 |-> _p0[2], x1 |-> _p1[1], y1 |-> _p1[2],
   location0 |-> LocationRelativeToViewPort(_bounds, _p0[1], _p0[2]),
   location1 |-> LocationRelativeToViewPort(_bounds, _p1[1], _p1[2]),
   accept |-> FALSE, pc |-> "loop",
   iter |-> 0, zeroDiv |-> FALSE, noBit |-> FALSE,
   outer |-> 0, moved |-> "none", returned |-> <<>>, linesBefore |-> <<>>]

\* the intersection formulas with the slope inverted: the x formulas divide
\* by x1 - x0 and the y formulas by y1 - y0
ClipIntersectionInverted(c, outerLocation) ==
  LET xmin == c.bounds[1]
      ymin == c.bounds[2]
      xmax == c.bounds[3]
      ymax == c.bounds[4]
      dx == RSub(c.x1, c.x0)
      dy == RSub(c.y1, c.y0)
  IN  IF HasBit(outerLocation, kTop)
      THEN <<RAdd(c.x0, RDiv(RMul(dy, RSub(ymax, c.y0)), dx)), ymax, dx, TRUE>>
      ELSE IF HasBit(outerLocation, kBottom)
      THEN <<RAdd(c.x0, RDiv(RMul(dy, RSub(ymin, c.y0)), dx)), ymin, dx, TRUE>>
      ELSE IF HasBit(outerLocation, kRight)
      THEN <<xmax, RAdd(c.y0, RDiv(RMul(dx, RSub(xmax, c.x0)), dy)), dy, TRUE>>
      ELSE IF HasBit(outerLocation, kLeft)
      THEN <<xmin, RAdd(c.y0, RDiv(RMul(dx, RSub(xmin, c.x0)), dy)), dy, TRUE>>
      ELSE <<I(0), I(0), I(1), FALSE>>

\* the intersection point computed by the clipping branch for outcode
\* outerLocation: <<x, y, denominator, found>>
ClipIntersection(c, outerLocation) ==
  LET xmin == c.bounds[1]
      ymin == c.bounds[2]
      xmax == c.bounds[3]
      ymax == c.bounds[4]
      dx == RSub(c.x1, c.x0)
      dy == RSub(c.y1, c.y0)
  IN  IF HasBit(outerLocation, kTop)
      THEN <<RAdd(c.x0, RDiv(RMul(dx, RSub(ymax, c.y0)), dy)), ymax, dy, TRUE>>
      ELSE IF HasBit(outerLocation, kBottom)
      THEN <<RAdd(c.x0, RDiv(RMul(dx, RSub(ymin, c.y0)), dy)), ymin, dy, TRUE>>
      ELSE IF HasBit(outerLocation, kRight)
      THEN <<xmax, RAdd(c.y0, RDiv(RMul(dy, RSub(xmax, c.x0)), dx)), dx, TRUE>>
      ELSE IF HasBit(outerLocation, kLeft)
      THEN <<xmin, RAdd(c.y0, RDiv(RMul(dy, RSub(xmin, c.x0)), dx)), dx, TRUE>>
      ELSE <<I(0), I(0), I(1), FALSE>>

\* the clipping branch moves the other endpoint
ClipUpdateSwapped(c, outerLocation, pt) ==
  IF outerLocation # c.location0
  THEN [c EXCEPT !.x0 = pt[1], !.y0 = pt[2], !.moved = "p0",
         !.location0 = LocationRelativeToViewPort(c.bounds, pt[1], pt[2])]
  ELSE [c EXCEPT !.x1 = pt[1], !.y1 = pt[2], !.moved = "p1",
         !.location1 = LocationRelativeToViewPort(c.bounds, pt[1], pt[2])]

\* update the outside point to the intersection point
ClipUpdate(c, outerLocation, pt) ==
  IF outerLocation = c.location0
  THEN [c EXCEPT !.x0 = pt[1], !.y0 = pt[2], !.moved = "p0",
         !.location0 = LocationRelativeToViewPort(c.bounds, pt[1], pt[2])]
  ELSE [c EXCEPT !.x1 = pt[1], !.y1 = pt[2], !.moved = "p1",
         !.location1 = LocationRelativeToViewPort(c.bounds, pt[1], pt[2])]

\* the endpoint with the smaller outcode is picked
OuterLocationSmaller(c) ==
  IF c.location1 < c.location0 THEN c.location1 ELSE c.location0

\* the boundary is picked with LEFT first, then RIGHT, BOTTOM, TOP
ClipMoveLeftFirst(c, pt) ==
  LET xmin == c.bounds[1]
      ymin == c.bounds[2]
      xmax == c.bounds[3]
      ymax == c.bounds[4]
      dx == RSub(c.x1, c.x0)
      dy == RSub(c.y1, c.y0)
      outerLocation == IF c.location1 > c.location0 THEN c.location1 ELSE c.location0
      q == IF HasBit(outerLocation, kLeft)
           THEN <<xmin, RAdd(c.y0, RDiv(RMul(dy, RSub(xmin, c.x0)), dx)), dx, TRUE>>
           ELSE IF HasBit(outerLocation, kRight)
           THEN <<xmax, RAdd(c.y0, RDiv(RMul(dy, RSub(xmax, c.x0)), dx)), dx, TRUE>>
           ELSE pt
      d == [c EXCEPT !.iter = Min(c.iter + 1, MaxIter), !.outer = outerLocation]
  IN  IF outerLocation = c.location0
      THEN [d EXCEPT !.x0 = q[1], !.y0 = q[2], !.moved = "p0",
             !.location0 = LocationRelativeToViewPort(c.bounds, q[1], q[2])]
      ELSE [d EXCEPT !.x1 = q[1], !.y1 = q[2], !.moved = "p1",
             !.location1 = LocationRelativeToViewPort(c.bounds, q[1], q[2])]

\* the endpoint the clipping branch works on: the one with the larger outcode
OuterLocation(c) ==
  IF c.location1 > c.location0 THEN c.location1 ELSE c.location0

\* the clipping branch, pt being the intersection point it has computed
ClipMove(c, pt) ==
  LET d == [c EXCEPT !.iter = Min(c.iter + 1, MaxIter), !.outer = OuterLocation(c),
                     !.zeroDiv = c.zeroDiv \/ (pt[4] /\ pt[3][1] = 0)]
  IN  IF ~pt[4]
      THEN [d EXCEPT !.noBit = TRUE, !.pc = "return"]
      ELSE ClipUpdate(d, OuterLocation(c), pt)

\* one pass through the body of the while (true) loop
ClipIterate(c) ==
  IF BitOr(c.location0, c.location1) = 0
  THEN [c EXCEPT !.accept = TRUE, !.pc = "return"]
  ELSE IF BitAnd(c.location0, c.location1) # 0
  THEN [c EXCEPT !.pc = "return"]
  ELSE CHOOSE r \in {ClipMove(c, pt) : pt \in {ClipIntersection(c, OuterLocation(c))}} :
         TRUE

\* the pair returned with the accept flag taken as set whenever the loop is
\* left
ClipResultAlways(c) == <<Vec2(c.x0, c.y0), Vec2(c.x1, c.y1)>>

\* the returned pair holds the clipped points in the other order
ClipResultSwapped(c) ==
  IF c.accept THEN <<Vec2(c.x1, c.y1), Vec2(c.x0, c.y0)>>
  ELSE <<Vector2dNaN, Vector2dNaN>>

\* the pair ClipToViewPort returns once its loop is left
ClipResult(c) ==
  IF c.accept THEN <<Vec2(c.x0, c.y0), Vec2(c.x1, c.y1)>>
  ELSE <<Vector2dNaN, Vector2dNaN>>

\* AddToViewportLines saves a rejected segment too
PushEndpointsAlways(_lines, endpoints) ==
  Append(Append(_lines, endpoints[1]), endpoints[2])

\* AddToViewportLines, after ClipToViewPort has returned endpoints
PushEndpoints(_lines, endpoints) ==
  IF IsFinite(endpoints[1]) /\ IsFinite(endpoints[2])
  THEN Append(Append(_lines, endpoints[1]), endpoints[2])
  ELSE _lines

----------------------------------------------------------------------------
(* uint32_t arithmetic *)

\* the uint32_t congruent to -k, for a small k > 0 (2^32 - k)
Wrapped(k) == [wrapped |-> k]

IsWrapped(u) == u \notin Int

\* a - b on uint32_t (a, b in range)
U32Sub(a, b) == IF a >= b THEN a - b ELSE Wrapped(b - a)

\* the conversion double -> uint32_t: truncation toward zero; a value <= -1 is
\* out of range and wraps on the usual builds
ToU32(r) ==
  IF r[1] >= 0 THEN r[1] \div r[2]
  ELSE IF -r[1] < r[2] THEN 0
  ELSE Wrapped((-r[1]) \div r[2])

\* a uint32_t stored into a double
FromU32(u) == IF IsWrapped(u) THEN u ELSE I(u)

----------------------------------------------------------------------------
(* maps (std::map) *)

EmptyMap == <<>>

Put(m, k, v) == [x \in (DOMAIN m) \cup {k} |-> IF x = k THEN v ELSE m[x]]

SetMin(S) == CHOOSE x \in S : \A y \in S : x <= y

RECURSIVE Ascending(_)
\* the keys of a std::map<uint32_t, ...> in iteration order
Ascending(S) ==
  IF S = {} THEN <<>> ELSE <<SetMin(S)>> \o Ascending(S \ {SetMin(S)})

RECURSIVE Reverse(_)
Reverse(s) == IF s = <<>> THEN <<>> ELSE Append(Reverse(Tail(s)), Head(s))

----------------------------------------------------------------------------
(* the frame *)

ImageWidth == 3

ImageHeight == 2

backgroundLabel == 255

channelCount == 3

BBT_FULLBOX2D == "BBT_FULLBOX2D"

BBT_VISIBLEBOX2D == "BBT_VISIBLEBOX2D"

BBT_BOX3D == "BBT_BOX3D"

BoundingBoxTypes == {BBT_VISIBLEBOX2D, BBT_FULLBOX2D, BBT_BOX3D}

Zero3 == <<I(0), I(0), I(0)>>

Identity == "identity"

\* a default-constructed BoundingBox
NewBoundingBox ==
  [type |-> BBT_VISIBLEBOX2D, center |-> Zero3, size |-> Zero3,
   orientation |-> Identity, label |-> 0]

PixelCount == ImageWidth * ImageHeight

\* the three bytes of pixel (x, y) of a buffer: a buffer is the sequence of its
\* bytes, (y * width + x) * channelCount + channel being the (0-based) index
Byte(buf, x, y, channel) == buf[(y * ImageWidth + x) * channelCount + channel + 1]

\* the background test accepts every pixel
IsObjectPixelAlways(label) == TRUE

\* label != backgroundLabel
IsObjectPixel(label) == label # backgroundLabel

\* the decoding with the two channels taken in the other order
DecodeOgreIdSwapped(ogreId1, ogreId2) == ogreId2 * 256 + ogreId1

\* ogreId1 * 256 + ogreId2
DecodeOgreId(ogreId1, ogreId2) == ogreId1 * 256 + ogreId2

----------------------------------------------------------------------------
(* MultiPartMerger *)

\* the parent names, in the order std::map<std::string, ...> iterates them
ParentNames == <<"", "arm", "robot">>

NameRank(n) == CHOOSE i \in 1..Len(ParentNames) : ParentNames[i] = n

RECURSIVE NamesAscending(_)
NamesAscending(S) ==
  IF S = {} THEN <<>>
  ELSE LET n == CHOOSE x \in S : \A y \in S : NameRank(x) <= NameRank(y)
       IN  <<n>> \o NamesAscending(S \ {n})

\* materialSwitcher->ogreIdName[ogreId]: a missing key reads as the empty string
ParentNameOf(names, ogreId) ==
  IF ogreId \in DOMAIN names THEN names[ogreId] ELSE ""

\* one corner coordinate of a box as MergeBoxes2D reads it: center -/+ size / 2
\* converted to uint32_t
BoxMin(box, axis) ==
  ToU32(RSub(box.center[axis], RDiv(box.size[axis], I(2))))

BoxMax(box, axis) ==
  ToU32(RAdd(box.center[axis], RDiv(box.size[axis], I(2))))

RECURSIVE MinOver(_, _), MaxOver(_, _)
\* minX / minY after the loop: std::min from UINT32_MAX over the boxes
MinOver(_boxes, axis) ==
  IF Len(_boxes) = 1 THEN BoxMin(_boxes[1], axis)
  ELSE Min(BoxMin(_boxes[1], axis), MinOver(Tail(_boxes), axis))

\* maxX / maxY after the loop: std::max from 0 over the boxes
MaxOver(_boxes, axis) ==
  IF Len(_boxes) = 0 THEN 0
  ELSE Max(BoxMax(_boxes[1], axis), MaxOver(Tail(_boxes), axis))

\* MergeBoxes2D; type is this->dataPtr->type
MergeBoxes2D(_boxes, type) ==
  IF Len(_boxes) = 1 THEN _boxes[1]
  ELSE
    LET minX == MinOver(_boxes, 1)
        maxX == MaxOver(_boxes, 1)
        minY == MinOver(_boxes, 2)
        maxY == MaxOver(_boxes, 2)
        width == U32Sub(maxX, minX)
        height == U32Sub(maxY, minY)
        cx == IF IsWrapped(width) THEN width ELSE minX + width \div 2
        cy == IF IsWrapped(height) THEN height ELSE minY + height \div 2
    IN  [NewBoundingBox EXCEPT
           !.type = type,
           !.size = <<FromU32(width), FromU32(height), I(0)>>,
           !.center = <<FromU32(cx), FromU32(cy), I(0)>>,
           !.label = _boxes[1].label]

\* the first loop of MergeMultiLinksModels2D putting every box under the
\* parent name of the first
GroupBoxesTogether(ids, boxes, names, groups) ==
  IF ids = <<>> THEN groups
  ELSE Put(groups, ParentNameOf(names, Head(ids)),
           [i \in 1..Len(ids) |-> boxes[ids[i]]])

RECURSIVE GroupBoxes(_, _, _, _)
\* first loop of MergeMultiLinksModels2D over boundingboxes (ids in key order)
GroupBoxes(ids, boxes, names, groups) ==
  IF ids = <<>> THEN groups
  ELSE LET parentName == ParentNameOf(names, Head(ids))
           old == IF parentName \in DOMAIN groups THEN groups[parentName] ELSE <<>>
       IN  GroupBoxes(Tail(ids), boxes, names,
                      Put(groups, parentName, Append(old, boxes[Head(ids)])))

RECURSIVE GroupOgreIds(_, _, _)
\* first loop of MergeMultiLinksModels3D
GroupOgreIds(ids, names, groups) ==
  IF ids = <<>> THEN groups
  ELSE LET parentName == ParentNameOf(names, Head(ids))
           old == IF parentName \in DOMAIN groups THEN groups[parentName] ELSE <<>>
       IN  GroupOgreIds(Tail(ids), names, Put(groups, parentName, Append(old, Head(ids))))

RECURSIVE MergeGroups2D(_, _, _)
\* second loop of MergeMultiLinksModels2D: the merged boxes in push order
MergeGroups2D(nameSeq, groups, type) ==
  IF nameSeq = <<>> THEN <<>>
  ELSE <<MergeBoxes2D(groups[Head(nameSeq)], type)>>
       \o MergeGroups2D(Tail(nameSeq), groups, type)

\* MergeMultiLinksModels2D without the closing std::reverse
MergeMultiLinksModels2DNoReverse(d, names) ==
  LET groups == GroupBoxes(Ascending(DOMAIN d.boundingboxes), d.boundingboxes,
                           names, d.parentNameToBoxes)
      merged == MergeGroups2D(NamesAscending(DOMAIN groups), groups, d.type)
  IN  [d EXCEPT !.parentNameToBoxes = groups,
                !.outputBoxes = d.outputBoxes \o merged]

\* MergeMultiLinksModels2D
MergeMultiLinksModels2D(d, names) ==
  LET groups == GroupBoxes(Ascending(DOMAIN d.boundingboxes), d.boundingboxes,
                           names, d.parentNameToBoxes)
      merged == MergeGroups2D(NamesAscending(DOMAIN groups), groups, d.type)
  IN  [d EXCEPT !.parentNameToBoxes = groups,
                !.outputBoxes = Reverse(d.outputBoxes \o merged)]

\* math::eigen3::verticesToOrientedBox over the vertices MeshVertices collects
\* for the items of a group: an external fit, kept as a term over the group
OrientedBoxOf(ogreIds) == [pca |-> ogreIds]

RECURSIVE MergeGroups3D(_, _, _)
\* second loop of MergeMultiLinksModels3D
MergeGroups3D(nameSeq, groups, d) ==
  IF nameSeq = <<>> THEN <<>>
  ELSE LET ogreIds == groups[Head(nameSeq)]
           fit == OrientedBoxOf(ogreIds)
           box == IF Len(ogreIds) = 1 THEN d.boundingboxes[ogreIds[1]]
                  ELSE [NewBoundingBox EXCEPT
                          !.type = BBT_BOX3D,
                          !.center = [pos |-> fit], !.orientation = [rot |-> fit],
                          !.size = [size |-> fit],
                          !.label = IF ogreIds[1] \in DOMAIN d.visibleBoxesLabel
                                    THEN d.visibleBoxesLabel[ogreIds[1]] ELSE 0]
       IN  <<box>> \o MergeGroups3D(Tail(nameSeq), groups, d)

\* MergeMultiLinksModels3D
MergeMultiLinksModels3D(d, names) ==
  LET groups == GroupOgreIds(Ascending(DOMAIN d.boundingboxes), names,
                             d.parentNameToOgreIds)
      merged == MergeGroups3D(NamesAscending(DOMAIN groups), groups, d)
  IN  [d EXCEPT !.parentNameToOgreIds = groups,
                !.outputBoxes = Reverse(d.outputBoxes \o merged)]

----------------------------------------------------------------------------
(* IdentifierBufferScanner *)

RECURSIVE MarkPixelsLast(_, _, _)
\* the loops of MarkVisibleBoxes storing the label of every object pixel: the
\* last label seen stays
MarkPixelsLast(buf, i, visible) ==
  IF i = PixelCount THEN visible
  ELSE
    LET x == i % ImageWidth
        y == i \div ImageWidth
        label == Byte(buf, x, y, 2)
        ogreId == DecodeOgreId(Byte(buf, x, y, 1), Byte(buf, x, y, 0))
    IN  IF IsObjectPixel(label)
        THEN MarkPixelsLast(buf, i + 1, Put(visible, ogreId, label))
        ELSE MarkPixelsLast(buf, i + 1, visible)

RECURSIVE MarkPixels(_, _, _)
\* the loops of MarkVisibleBoxes from pixel number i on (row-major)
MarkPixels(buf, i, visible) ==
  IF i = PixelCount THEN visible
  ELSE
    LET x == i % ImageWidth
        y == i \div ImageWidth
        label == Byte(buf, x, y, 2)
        ogreId == DecodeOgreId(Byte(buf, x, y, 1), Byte(buf, x, y, 0))
    IN  IF IsObjectPixel(label) /\ ogreId \notin DOMAIN visible
        THEN MarkPixels(buf, i + 1, Put(visible, ogreId, label))
        ELSE MarkPixels(buf, i + 1, visible)

\* MarkVisibleBoxes
MarkVisibleBoxes(d) ==
  [d EXCEPT !.visibleBoxesLabel = MarkPixels(d.buffer, 0, d.visibleBoxesLabel)]

RECURSIVE ScanPixels(_, _, _)
\* the scanning loops of VisibleBoundingBoxes from pixel number i on;
\* st.boxes is dataPtr->boundingboxes, st.boundary the local boxesBoundary
ScanPixels(buf, i, st) ==
  IF i = PixelCount THEN st
  ELSE
    LET x == i % ImageWidth
        y == i \div ImageWidth
        label == Byte(buf, x, y, 2)
        ogreId == DecodeOgreId(Byte(buf, x, y, 1), Byte(buf, x, y, 0))
        isNew == ogreId \notin DOMAIN st.boxes
        boxes == IF isNew
                 THEN Put(st.boxes, ogreId,
                          [NewBoundingBox EXCEPT !.type = BBT_VISIBLEBOX2D,
                                                 !.label = label])
                 ELSE st.boxes
        old == IF isNew
               THEN [minX |-> ImageWidth, minY |-> ImageHeight, maxX |-> 0, maxY |-> 0]
               ELSE st.boundary[ogreId]
        new == [minX |-> Min(old.minX, x), minY |-> Min(old.minY, y),
                maxX |-> Max(old.maxX, x), maxY |-> Max(old.maxY, y)]
    IN  IF IsObjectPixel(label)
        THEN ScanPixels(buf, i + 1,
                        [boxes |-> boxes, boundary |-> Put(st.boundary, ogreId, new)])
        ELSE ScanPixels(buf, i + 1, st)

\* center and size of one object's box from its boundary (second loop of
\* VisibleBoundingBoxes)
BoxFromBoundary(box, boundary) ==
  LET boxWidth == U32Sub(boundary.maxX, boundary.minX)
      boxHeight == U32Sub(boundary.maxY, boundary.minY)
  IN  [box EXCEPT
         !.center = <<I(boundary.minX + boxWidth \div 2),
                      I(boundary.minY + boxHeight \div 2), I(0)>>,
         !.size = <<I(boxWidth), I(boxHeight), I(0)>>]

\* boundingboxes and boxesBoundary once the scanning loops are done
ScanResult(d) ==
  ScanPixels(d.buffer, 0, [boxes |-> d.boundingboxes, boundary |-> EmptyMap])

\* VisibleBoundingBoxes
VisibleBoundingBoxes(d, names) ==
  LET st == ScanResult(d)
      boxes == [ogreId \in DOMAIN st.boxes |->
                  BoxFromBoundary(st.boxes[ogreId], st.boundary[ogreId])]
  IN  MergeMultiLinksModels2D([d EXCEPT !.boundingboxes = boxes], names)

----------------------------------------------------------------------------
(* FullProjectionBuilder and Box3DBuilder *)

RAbs(a) == IF IsNaN(a) THEN NaN ELSE <<Abs(a[1]), a[2]>>

\* std::clamp<double>(v, -1.0, 1.0)
Clamp(v) == IF RLt(v, I(-1)) THEN I(-1) ELSE IF RLt(I(1), v) THEN I(1) ELSE v

RECURSIVE VertexMin(_, _), VertexMax(_, _)
\* std::min over the projected vertices of a mesh (a non-empty sequence)
VertexMin(verts, axis) ==
  IF Len(verts) = 1 THEN verts[1][axis]
  ELSE LET m == VertexMin(Tail(verts), axis)
       IN  IF RLt(verts[1][axis], m) THEN verts[1][axis] ELSE m

VertexMax(verts, axis) ==
  IF Len(verts) = 1 THEN verts[1][axis]
  ELSE LET m == VertexMax(Tail(verts), axis)
       IN  IF RLt(m, verts[1][axis]) THEN verts[1][axis] ELSE m

\* MeshMinimalBox: <<minVertex, maxVertex>> of the projected (x / w, y / w)
\* vertices of an item
MeshMinimalBox(verts) ==
  <<Vec2(VertexMin(verts, 1), VertexMin(verts, 2)),
    Vec2(VertexMax(verts, 1), VertexMax(verts, 2))>>

\* the off-screen test of FullBoundingBoxes
FullyOffScreen(minVertex, maxVertex) ==
  \/ RGt(RAbs(minVertex[1]), I(1)) /\ RGt(RAbs(maxVertex[1]), I(1))
  \/ RGt(RAbs(minVertex[2]), I(1)) /\ RGt(RAbs(maxVertex[2]), I(1))

\* ConvertToScreenCoord: <<minVertex, maxVertex>> in pixels
ConvertToScreenCoord(minVertex, maxVertex) ==
  LET toX(v) == ToU32(RMul(RDiv(RAdd(Clamp(v), I(1)), I(2)), I(ImageWidth)))
      toY(v) == ToU32(RMul(RDiv(RSub(I(1), Clamp(v)), I(2)), I(ImageHeight)))
  IN  <<Vec2(I(Max(0, toX(minVertex[1]))), I(Max(0, toY(minVertex[2])))),
        Vec2(I(Min(toX(maxVertex[1]), ImageWidth - 1)),
             I(Min(toY(maxVertex[2]), ImageHeight - 1)))>>

\* the box FullBoundingBoxes builds from the pixel corners
FullBox(minVertex, maxVertex) ==
  LET boxWidth == RSub(maxVertex[1], minVertex[1])
      boxHeight == RSub(minVertex[2], maxVertex[2])
  IN  [NewBoundingBox EXCEPT
         !.type = BBT_FULLBOX2D,
         !.center = <<RAdd(minVertex[1], RDiv(boxWidth, I(2))),
                      RAdd(maxVertex[2], RDiv(boxHeight, I(2))), I(0)>>,
         !.size = <<boxWidth, boxHeight, I(0)>>]

RECURSIVE FullItemsHidden(_, _)
\* the item loop of FullBoundingBoxes without the skip of the items that are
\* not in visibleBoxesLabel
FullItemsHidden(d, k) ==
  IF k > Len(items) THEN d
  ELSE
    LET item == items[k]
        mm == MeshMinimalBox(item.vertices)
        px == ConvertToScreenCoord(mm[1], mm[2])
    IN  IF ~item.isVisible THEN FullItemsHidden(d, k + 1)
        ELSE IF FullyOffScreen(mm[1], mm[2]) THEN FullItemsHidden(d, k + 1)
        ELSE FullItemsHidden([d EXCEPT !.boundingboxes =
                                Put(d.boundingboxes, item.id, FullBox(px[1], px[2]))],
                             k + 1)

RECURSIVE FullItems(_, _)
\* the item loop of FullBoundingBoxes from item number k on
FullItems(d, k) ==
  IF k > Len(items) THEN d
  ELSE
    LET item == items[k]
        mm == MeshMinimalBox(item.vertices)
        px == ConvertToScreenCoord(mm[1], mm[2])
    IN  IF item.id \notin DOMAIN d.visibleBoxesLabel THEN FullItems(d, k + 1)
        ELSE IF ~item.isVisible THEN FullItems(d, k + 1)
        ELSE IF FullyOffScreen(mm[1], mm[2]) THEN FullItems(d, k + 1)
        ELSE FullItems([d EXCEPT !.boundingboxes =
                          Put(d.boundingboxes, item.id, FullBox(px[1], px[2]))],
                       k + 1)

\* the "set boxes label" loop of FullBoundingBoxes and BoundingBoxes3D:
\* visibleBoxesLabel[ogreId] inserts the label 0 for an id that has no entry
SetBoxesLabel(d) ==
  [d EXCEPT
     !.boundingboxes =
       [ogreId \in DOMAIN d.boundingboxes |->
          [d.boundingboxes[ogreId] EXCEPT !.label =
             IF ogreId \in DOMAIN d.visibleBoxesLabel
             THEN d.visibleBoxesLabel[ogreId] ELSE 0]],
     !.visibleBoxesLabel =
       [ogreId \in (DOMAIN d.visibleBoxesLabel) \cup (DOMAIN d.boundingboxes) |->
          IF ogreId \in DOMAIN d.visibleBoxesLabel
          THEN d.visibleBoxesLabel[ogreId] ELSE 0]]

\* FullBoundingBoxes
FullBoundingBoxes(d, names) ==
  MergeMultiLinksModels2D(SetBoxesLabel(FullItems(MarkVisibleBoxes(d), 1)), names)

RECURSIVE Items3D(_, _)
\* the item loop of BoundingBoxes3D from item number k on; the pose of a box is
\* what Ogre reports for the item
Items3D(d, k) ==
  IF k > Len(items) THEN d
  ELSE
    LET item == items[k]
        box == [NewBoundingBox EXCEPT
                  !.type = BBT_BOX3D,
                  !.center = [viewPosition |-> item.id],
                  !.size = [size |-> item.id],
                  !.orientation = [bodyCameraRotation |-> item.id]]
    IN  IF item.id \notin DOMAIN d.visibleBoxesLabel THEN Items3D(d, k + 1)
        ELSE IF ~item.isVisible THEN Items3D(d, k + 1)
        ELSE Items3D([d EXCEPT
                        !.ogreIdToItem = Put(d.ogreIdToItem, item.id, k),
                        !.boundingboxes = Put(d.boundingboxes, item.id, box)],
                     k + 1)

\* BoundingBoxes3D
BoundingBoxes3D(d, names) ==
  MergeMultiLinksModels3D(SetBoxesLabel(Items3D(MarkVisibleBoxes(d), 1)), names)

----------------------------------------------------------------------------
(* rendered frames *)

\* the clear colour of the workspace: (background, background, background)
BackgroundPixel == <<backgroundLabel, backgroundLabel, backgroundLabel>>

\* bytes <<ogreId2, ogreId1, label>> the material switcher may give a pixel
PaintValues == {<<1, 0, 1>>, <<2, 0, 1>>, <<1, 0, 2>>, <<1, 0, backgroundLabel>>}

Rects ==
  {r \in [x0 : 0..(ImageWidth - 1), x1 : 0..(ImageWidth - 1),
          y0 : 0..(ImageHeight - 1), y1 : 0..(ImageHeight - 1)] :
     r.x0 <= r.x1 /\ r.y0 <= r.y1}

Covers(r, x, y) == r.x0 <= x /\ x <= r.x1 /\ r.y0 <= y /\ y <= r.y1

RECURSIVE PixelOf(_, _, _)
\* the bytes of pixel (x, y) when the rectangles of objs are drawn in order
\* over the cleared target
PixelOf(objs, x, y) ==
  IF objs = <<>> THEN BackgroundPixel
  ELSE LET o == objs[Len(objs)]
       IN  IF Covers(o.rect, x, y) THEN o.value
           ELSE PixelOf(SubSeq(objs, 1, Len(objs) - 1), x, y)

\* the RGB bytes PostRender copies out of the render texture, row-major
FrameOf(objs) ==
  [i \in 1..(PixelCount * channelCount) |->
     LET px == (i - 1) \div channelCount
     IN  PixelOf(objs, px % ImageWidth, px \div ImageWidth)[((i - 1) % channelCount) + 1]]

BlankFrame == FrameOf(<<>>)

PaintedObjects == [rect : Rects, value : PaintValues]

\* every frame of at most two rectangles
Frames ==
  {BlankFrame} \cup {FrameOf(<<o1, o2>>) : o1 \in PaintedObjects, o2 \in PaintedObjects}

\* the names the material switcher may record for the ogre ids 1 and 2: none,
\* one parent for both, or two parents whose order is not that of the ids
NameMaps ==
  {EmptyMap} \cup {[id \in {1, 2} |-> IF id = 1 THEN "robot" ELSE n2] :
                     n2 \in {"arm", "robot"}}

\* the projected vertices of the mesh of item id: item 1 is on screen, item 2
\* reaches over the right edge, item 3 lies off screen
ItemVertices(id) ==
  IF id = 1 THEN <<Vec2(Rat(-1, 2), Rat(-1, 2)), Vec2(Rat(1, 2), Rat(1, 2))>>
  ELSE IF id = 2 THEN <<Vec2(I(0), I(-1)), Vec2(I(2), I(0))>>
  ELSE <<Vec2(I(2), I(0)), Vec2(I(3), I(1))>>

Item(id, isVisible) ==
  [id |-> id, isVisible |-> isVisible, vertices |-> ItemVertices(id)]

\* the scenes Render draws in the frame cycle: the painted rectangles, the
\* parent names and the items with the result of the camera's frustum test
Scenes ==
  {[objs |-> <<>>, names |-> EmptyMap, items |-> <<>>]}
  \cup
  {[objs |-> <<[rect |-> [x0 |-> 0, x1 |-> 1, y0 |-> 0, y1 |-> 1], value |-> <<1, 0, 1>>],
               [rect |-> [x0 |-> 2, x1 |-> 2, y0 |-> 0, y1 |-> 1], value |-> <<2, 0, 1>>]>>,
    names |-> [id \in {1, 2} |-> IF id = 1 THEN nv[1] ELSE "robot"],
    items |-> <<Item(1, TRUE), Item(2, nv[2])>>] :
     nv \in {<<"arm", TRUE>>, <<"robot", TRUE>>, <<"arm", FALSE>>}}

DefaultItems == <<Item(1, TRUE), Item(2, TRUE)>>

\* projected extents of a mesh: the corners of its vertices, low then high
NdcCoords == {I(n) : n \in (-MaxNdc)..MaxNdc}

MeshExtents ==
  {e \in {<<Vec2(x0, y0), Vec2(x1, y1)>> :
            x0 \in NdcCoords, y0 \in NdcCoords, x1 \in NdcCoords, y1 \in NdcCoords} :
     RLe(e[1][1], e[2][1]) /\ RLe(e[1][2], e[2][2])}

\* the items of the builder frames: item 1 with any extent, item 2 as in the
\* frame cycle, each passing the frustum test or not
BuilderItems ==
  {<<[id |-> 1, isVisible |-> v1, vertices |-> e], Item(2, v2)>> :
     e \in MeshExtents, v1 \in BOOLEAN, v2 \in BOOLEAN}

\* the frames the builders read: both objects in view, or object 2 alone
BuilderFrames ==
  {FrameOf(<<[rect |-> [x0 |-> 0, x1 |-> 1, y0 |-> 0, y1 |-> 1], value |-> <<1, 0, 2>>],
             [rect |-> [x0 |-> 2, x1 |-> 2, y0 |-> 0, y1 |-> 1], value |-> <<2, 0, 1>>]>>),
   FrameOf(<<[rect |-> [x0 |-> 2, x1 |-> 2, y0 |-> 0, y1 |-> 1], value |-> <<2, 0, 1>>]>>)}

----------------------------------------------------------------------------
(* the camera *)

\* Ogre2BoundingBoxCameraPrivate as constructed
NewDataPtr ==
  [type |-> BBT_VISIBLEBOX2D, outputBoxes |-> <<>>, buffer |-> <<>>,
   boundingboxes |-> EmptyMap, visibleBoxesLabel |-> EmptyMap,
   parentNameToBoxes |-> EmptyMap, parentNameToOgreIds |-> EmptyMap,
   itemVertices |-> EmptyMap, ogreIdToItem |-> EmptyMap]

\* nothing processed yet
NoScan ==
  [ran |-> FALSE, type |-> BBT_VISIBLEBOX2D, names |-> EmptyMap,
   outputBefore |-> <<>>, boundary |-> EmptyMap,
   boundingboxes |-> EmptyMap, visibleBoxesLabel |-> EmptyMap,
   parentNameToBoxes |-> EmptyMap, parentNameToOgreIds |-> EmptyMap,
   itemVertices |-> EmptyMap, ogreIdToItem |-> EmptyMap]

\* the end of PostRender keeps visibleBoxesLabel
ClearFrameStateKeepVisible(d) ==
  [d EXCEPT !.boundingboxes = EmptyMap,
            !.parentNameToBoxes = EmptyMap, !.parentNameToOgreIds = EmptyMap,
            !.itemVertices = EmptyMap, !.ogreIdToItem = EmptyMap]

\* the end of PostRender: the boxes are deleted and the maps cleared
ClearFrameState(d) ==
  [d EXCEPT !.boundingboxes = EmptyMap, !.visibleBoxesLabel = EmptyMap,
            !.parentNameToBoxes = EmptyMap, !.parentNameToOgreIds = EmptyMap,
            !.itemVertices = EmptyMap, !.ogreIdToItem = EmptyMap]

\* PostRender running the visible-pixel pipeline whatever dataPtr->type is
RunPipelineVisible(d, names) == VisibleBoundingBoxes(d, names)

\* the pipeline PostRender selects by dataPtr->type
RunPipeline(d, names) ==
  IF d.type = BBT_VISIBLEBOX2D THEN VisibleBoundingBoxes(d, names)
  ELSE IF d.type = BBT_FULLBOX2D THEN FullBoundingBoxes(d, names)
  ELSE IF d.type = BBT_BOX3D THEN BoundingBoxes3D(d, names)
  ELSE d

\* what the frame computed, read before the maps are cleared
ScanOf(before, after, names) ==
  [ran |-> TRUE, type |-> before.type, names |-> names,
   outputBefore |-> before.outputBoxes,
   boundary |-> IF before.type = BBT_VISIBLEBOX2D THEN ScanResult(before).boundary
                ELSE EmptyMap,
   boundingboxes |-> after.boundingboxes,
   visibleBoxesLabel |-> after.visibleBoxesLabel,
   parentNameToBoxes |-> after.parentNameToBoxes,
   parentNameToOgreIds |-> after.parentNameToOgreIds,
   itemVertices |-> after.itemVertices, ogreIdToItem |-> after.ogreIdToItem]

PreRender ==
  /\ dataPtr' = [dataPtr EXCEPT !.outputBoxes = <<>>]
  /\ op' = "other"
  /\ UNCHANGED <<connections, texture, ogreIdName, items, scan, clip, lines,
               merge, draw, codec>>

Render ==
  /\ \E sc \in Scenes :
       /\ texture' = FrameOf(sc.objs)
       /\ ogreIdName' = sc.names
       /\ items' = sc.items
  /\ op' = "other"
  /\ UNCHANGED <<dataPtr, connections, scan, clip, lines, merge, draw, codec>>

PostRender ==
  /\ Len(dataPtr.outputBoxes) < MaxOutputBoxes
  /\ op' = "PostRender"
  /\ IF connections = 0
     THEN UNCHANGED <<dataPtr, ogreIdName, scan>>
     ELSE LET before == [dataPtr EXCEPT !.buffer = texture]
              after == RunPipeline(before, ogreIdName)
          IN  /\ dataPtr' = ClearFrameState(after)
              /\ scan' = ScanOf(before, after, ogreIdName)
              /\ ogreIdName' = EmptyMap
  /\ UNCHANGED <<connections, texture, items, clip, lines, merge, draw, codec>>

ConnectNewBoundingBoxes ==
  /\ connections < MaxSubscribers
  /\ connections' = connections + 1
  /\ op' = "other"
  /\ UNCHANGED <<dataPtr, texture, ogreIdName, items, scan, clip, lines,
               merge, draw, codec>>

Disconnect ==
  /\ connections > 0
  /\ connections' = connections - 1
  /\ op' = "other"
  /\ UNCHANGED <<dataPtr, texture, ogreIdName, items, scan, clip, lines,
               merge, draw, codec>>

\* SetBoundingBoxType(_type)
SetBoundingBoxTypeTo(_type) ==
  /\ dataPtr' = [dataPtr EXCEPT !.type = _type]
  /\ op' = "other"
  /\ UNCHANGED <<connections, texture, ogreIdName, items, scan, clip, lines,
               merge, draw, codec>>

SetBoundingBoxType == \E _type \in BoundingBoxTypes : SetBoundingBoxTypeTo(_type)

----------------------------------------------------------------------------
(* the clipper, one loop iteration at a time *)

ClipIdle ==
  [ClipEnter(<<I(-1), I(-1), I(1), I(1)>>, Vec2(I(0), I(0)), Vec2(I(0), I(0)))
     EXCEPT !.pc = "idle"]

\* the viewports: the clip range of DrawBoundingBox, a viewport that is a
\* single point, and an off-centre one
Viewports ==
  {<<I(-1), I(-1), I(1), I(1)>>, <<I(0), I(0), I(0), I(0)>>,
   <<I(-2), I(0), I(1), I(1)>>}

Coords == {I(n) : n \in (-MaxCoord)..MaxCoord}

Points == {Vec2(x, y) : x \in Coords, y \in Coords}

\* what _lines may hold when AddToViewportLines is called
EarlierLines == {<<>>, <<Vec2(I(0), I(0)), Vec2(I(1), I(1))>>}

\* AddToViewportLines is called and ClipToViewPort reaches its loop
CallAddToViewportLines ==
  /\ clip.pc = "idle"
  /\ lines' \in EarlierLines
  /\ \E b \in Viewports, a0 \in Points, a1 \in Points :
       clip' = [ClipEnter(b, a0, a1) EXCEPT !.linesBefore = lines']
  /\ UNCHANGED <<dataPtr, connections, texture, ogreIdName, items, scan, op,
               merge, draw, codec>>

ClipToViewPortLoop ==
  /\ clip.pc = "loop"
  /\ clip' = ClipIterate(clip)
  /\ UNCHANGED <<lines, dataPtr, connections, texture, ogreIdName, items, scan, op,
               merge, draw, codec>>

AddToViewportLines ==
  /\ clip.pc = "return"
  /\ clip' = [clip EXCEPT !.pc = "done", !.returned = ClipResult(clip)]
  /\ lines' = PushEndpoints(lines, ClipResult(clip))
  /\ UNCHANGED <<dataPtr, connections, texture, ogreIdName, items, scan, op,
               merge, draw, codec>>

\* the caller is done with the clipped lines: its vector goes out of scope
CallerReturns ==
  /\ clip.pc = "done"
  /\ clip' = ClipIdle
  /\ lines' = <<>>
  /\ UNCHANGED <<dataPtr, connections, texture, ogreIdName, items, scan, op,
               merge, draw, codec>>

----------------------------------------------------------------------------
(* MergeBoxes2D on a group of its own, and on the merged boxes of its parts *)

MergeIdle ==
  [pc |-> "idle", boxes |-> <<>>, split |-> 0, whole |-> NewBoundingBox,
   parts |-> <<>>, remerged |-> NewBoundingBox]

\* 2D boxes as the scanner produces them: whole centres and sizes, inside the
\* image
MergeInputBoxes ==
  {[NewBoundingBox EXCEPT !.center = <<I(c), I(1), I(0)>>,
                          !.size = <<I(w), I(0), I(0)>>, !.label = 1] :
     c \in 1..MaxCentre, w \in 0..MaxSize}

\* the groups: one, two or three boxes
MergeInputGroups ==
  {<<a>> : a \in MergeInputBoxes}
  \cup {<<a, b>> : a \in MergeInputBoxes, b \in MergeInputBoxes}
  \cup {<<a, b, c>> : a \in MergeInputBoxes, b \in MergeInputBoxes,
                      c \in MergeInputBoxes}

\* MergeBoxes2D is called on a group
CallMergeBoxes2D ==
  /\ merge.pc = "idle"
  /\ \E g \in MergeInputGroups :
       merge' = [MergeIdle EXCEPT !.pc = "merged", !.boxes = g,
                                  !.whole = MergeBoxes2D(g, dataPtr.type)]
  /\ UNCHANGED <<clip, lines, dataPtr, connections, texture, ogreIdName, items,
               scan, op, draw, codec>>

\* MergeBoxes2D is called on the first k boxes of the group and on the others
MergeSubGroups ==
  /\ merge.pc = "merged"
  /\ \E k \in 1..(Len(merge.boxes) - 1) :
       merge' = [merge EXCEPT
                   !.pc = "split", !.split = k,
                   !.parts =
                     <<MergeBoxes2D(SubSeq(merge.boxes, 1, k), dataPtr.type),
                       MergeBoxes2D(SubSeq(merge.boxes, k + 1, Len(merge.boxes)),
                                    dataPtr.type)>>]
  /\ UNCHANGED <<clip, lines, dataPtr, connections, texture, ogreIdName, items,
               scan, op, draw, codec>>

\* MergeBoxes2D is called on the two merged boxes
MergeMergedBoxes ==
  /\ merge.pc = "split"
  /\ merge' = [merge EXCEPT !.pc = "done",
                            !.remerged = MergeBoxes2D(merge.parts, dataPtr.type)]
  /\ UNCHANGED <<clip, lines, dataPtr, connections, texture, ogreIdName, items,
               scan, op, draw, codec>>

\* the caller drops the boxes
MergeReturns ==
  /\ merge.pc \in {"merged", "done"}
  /\ merge' = MergeIdle
  /\ UNCHANGED <<clip, lines, dataPtr, connections, texture, ogreIdName, items,
               scan, op, draw, codec>>

----------------------------------------------------------------------------
(* DrawBoundingBox (2D boxes) and DrawLine on the image _data *)

\* the colour the drawing calls write: bytes 0, 255, 0
Green == <<0, 255, 0>>

\* _data: the pixel number y * width + x (from 0) mapped to its three bytes
CanvasPixelCount == CanvasWidth * CanvasHeight

Canvas(colour) == [n \in 0..(CanvasPixelCount - 1) |-> colour]

\* what _data may hold when a drawing call is made
CanvasContents == {Canvas(<<0, 0, 0>>), Canvas(<<255, 255, 255>>)}

\* the three stores of "plot the point" at index (y * width + x) * 3
Plot(data, pixels) ==
  [n \in DOMAIN data |->
     IF \E px \in pixels : px[2] * CanvasWidth + px[1] = n THEN Green ELSE data[n]]

\* the 2D part of DrawBoundingBox with both loops bounded by the truncated
\* maxVertex
DrawBoundingBoxTruncated(data, _box) ==
  LET minX == ToU32(RSub(_box.center[1], RDiv(_box.size[1], I(2))))
      minY == ToU32(RSub(_box.center[2], RDiv(_box.size[2], I(2))))
      maxX == ToU32(RAdd(_box.center[1], RDiv(_box.size[1], I(2))))
      maxY == ToU32(RAdd(_box.center[2], RDiv(_box.size[2], I(2))))
  IN  Plot(data, {<<j, i>> : j \in {minX, maxX}, i \in minY..(maxY - 1)}
                 \cup {<<j, i>> : j \in minX..(maxX - 1), i \in {minY, maxY}})

\* the 2D part of DrawBoundingBox: the loop variables are uint32_t, started at
\* the truncated minVertex and compared with maxVertex as a double
DrawBoundingBox(data, _box) ==
  LET minVertex == Vec2(RSub(_box.center[1], RDiv(_box.size[1], I(2))),
                        RSub(_box.center[2], RDiv(_box.size[2], I(2))))
      maxVertex == Vec2(RAdd(_box.center[1], RDiv(_box.size[1], I(2))),
                        RAdd(_box.center[2], RDiv(_box.size[2], I(2))))
      x_values == {ToU32(minVertex[1]), ToU32(maxVertex[1])}
      y_values == {ToU32(minVertex[2]), ToU32(maxVertex[2])}
      rows == {i \in ToU32(minVertex[2])..CanvasHeight : RLt(I(i), maxVertex[2])}
      columns == {j \in ToU32(minVertex[1])..CanvasWidth : RLt(I(j), maxVertex[1])}
  IN  Plot(data, {<<j, i>> : j \in x_values, i \in rows}
                 \cup {<<j, i>> : j \in columns, i \in y_values})

RECURSIVE DrawLineLow(_, _, _, _, _, _, _, _)
\* the loop of DrawLine over x (lines closer to horizontal): the plotted points
DrawLineLow(x, x1, y, D, dx, dy, yi, plotted) ==
  IF ~(x < x1) THEN plotted
  ELSE DrawLineLow(x + 1, x1, IF D > 0 THEN y + yi ELSE y,
                   IF D > 0 THEN D + 2 * (dy - dx) ELSE D + 2 * dy,
                   dx, dy, yi, Append(plotted, <<x, y>>))

RECURSIVE DrawLineHigh(_, _, _, _, _, _, _, _)
\* the loop of DrawLine over y (the other lines): the plotted points
DrawLineHigh(y, y1, x, D, dx, dy, xi, plotted) ==
  IF ~(y < y1) THEN plotted
  ELSE DrawLineHigh(y + 1, y1, IF D > 0 THEN x + xi ELSE x,
                    IF D > 0 THEN D + 2 * (dx - dy) ELSE D + 2 * dx,
                    dx, dy, xi, Append(plotted, <<x, y>>))

\* DrawLine without the ordering of the two endpoints: the loops run from
\* _point1 to _point2
DrawLineUnordered(_point1, _point2) ==
  LET dx == _point2[1] - _point1[1]
      dy == _point2[2] - _point1[2]
  IN  IF Abs(dy) < Abs(dx)
      THEN DrawLineLow(_point1[1], _point2[1], _point1[2], 2 * Abs(dy) - dx,
                       dx, Abs(dy), IF dy < 0 THEN -1 ELSE 1, <<>>)
      ELSE DrawLineHigh(_point1[2], _point2[2], _point1[1], 2 * Abs(dx) - dy,
                        Abs(dx), dy, IF dx < 0 THEN -1 ELSE 1, <<>>)

\* DrawLine: the points it plots, in order
DrawLine(_point1, _point2) ==
  IF Abs(_point2[2] - _point1[2]) < Abs(_point2[1] - _point1[1])
  THEN LET first == IF _point1[1] < _point2[1] THEN _point1 ELSE _point2
           last == IF _point1[1] < _point2[1] THEN _point2 ELSE _point1
           dx == last[1] - first[1]
           dy == last[2] - first[2]
           yi == IF dy < 0 THEN -1 ELSE 1
       IN  DrawLineLow(first[1], last[1], first[2], 2 * Abs(dy) - dx,
                       dx, Abs(dy), yi, <<>>)
  ELSE LET first == IF _point1[2] < _point2[2] THEN _point1 ELSE _point2
           last == IF _point1[2] < _point2[2] THEN _point2 ELSE _point1
           dx == last[1] - first[1]
           dy == last[2] - first[2]
           xi == IF dx < 0 THEN -1 ELSE 1
       IN  DrawLineHigh(first[2], last[2], first[1], 2 * Abs(dx) - dy,
                        Abs(dx), dy, xi, <<>>)

RECURSIVE ClipToViewPort(_)
\* ClipToViewPort from the locals c on: the locals when its loop is left
ClipToViewPort(c) ==
  IF c.pc = "return" THEN c
  ELSE CHOOSE r \in {ClipToViewPort(d) : d \in {ClipIterate(c)}} : TRUE

\* the twelve edges of a 3D box as DrawBoundingBox clips them: pairs of indices
\* into vertices2d (from 0): top, bottom, pillars
BoxEdges ==
  <<<<0, 1>>, <<1, 2>>, <<2, 3>>, <<3, 0>>,
    <<4, 5>>, <<5, 6>>, <<6, 7>>, <<7, 4>>,
    <<0, 4>>, <<1, 5>>, <<2, 6>>, <<3, 7>>>>

RECURSIVE ClipEdges(_, _, _)
\* the calls of AddToViewportLines of DrawBoundingBox from edge number k on
ClipEdges(vertices2d, k, clippedVertices) ==
  IF k > Len(BoxEdges) THEN clippedVertices
  ELSE ClipEdges(vertices2d, k + 1,
         PushEndpoints(clippedVertices,
           ClipResult(ClipToViewPort(
             ClipEnter(<<I(-1), I(-1), I(1), I(1)>>,
                       vertices2d[BoxEdges[k][1] + 1],
                       vertices2d[BoxEdges[k][2] + 1])))))

\* a clipped vertex in pixels: math::Vector2i
ToScreen(vertex) ==
  <<Min(Max(0, ToU32(RMul(RDiv(RAdd(vertex[1], I(1)), I(2)), I(CanvasWidth)))),
        CanvasWidth - 1),
    Min(Max(0, ToU32(RMul(RDiv(RSub(I(1), vertex[2]), I(2)), I(CanvasHeight)))),
        CanvasHeight - 1)>>

RECURSIVE DrawLines(_, _, _)
\* the calls of DrawLine on the pairs of projVertices from endPt on: the
\* plotted points
DrawLines(projVertices, endPt, plotted) ==
  IF endPt > Len(projVertices) THEN plotted
  ELSE DrawLines(projVertices, endPt + 2,
                 plotted \o DrawLine(projVertices[endPt], projVertices[endPt + 1]))

\* the 3D part of DrawBoundingBox with the Z test left out for the first vertex
ClippedVerticesFromSecond(vertices) ==
  IF \E i \in DOMAIN vertices \ {1} : vertices[i].z > 0 THEN <<>>
  ELSE ClipEdges([i \in DOMAIN vertices |-> vertices[i].projected], 1, <<>>)

\* the 3D part of DrawBoundingBox up to the clipping: clippedVertices, empty
\* when the function returns at a vertex that has positive Z; a vertex is its
\* camera-space Z and its projection (x / w, y / w)
ClippedVertices(vertices) ==
  IF \E i \in DOMAIN vertices : vertices[i].z > 0 THEN <<>>
  ELSE ClipEdges([i \in DOMAIN vertices |-> vertices[i].projected], 1, <<>>)

\* the 3D part of DrawBoundingBox: the points it plots
DrawBoundingBox3D(vertices) ==
  LET clippedVertices == ClippedVertices(vertices)
      projVertices == [i \in DOMAIN clippedVertices |-> ToScreen(clippedVertices[i])]
  IN  DrawLines(projVertices, 1, <<>>)

\* no drawing call is under way
DrawIdle ==
  [pc |-> "idle", before |-> Canvas(<<0, 0, 0>>), data |-> Canvas(<<0, 0, 0>>),
   box |-> NewBoundingBox, point1 |-> <<0, 0>>, point2 |-> <<0, 0>>,
   plotted |-> <<>>, vertices |-> <<>>, clippedVertices |-> <<>>]

\* the pixels of the image
CanvasPixels == (0..(CanvasWidth - 1)) \X (0..(CanvasHeight - 1))

\* centres and sizes in half pixels and pixels
DrawCentres(extent) == {Rat(n, 2) : n \in 0..(2 * (extent - 1))}

DrawSizes == {I(n) : n \in 0..MaxDrawSize}

\* the 2D boxes lying inside the image
DrawBoxes ==
  {b \in {[NewBoundingBox EXCEPT !.type = t, !.center = <<cx, cy, I(0)>>,
                                 !.size = <<sx, sy, I(0)>>] :
            t \in {BBT_VISIBLEBOX2D, BBT_FULLBOX2D},
            cx \in DrawCentres(CanvasWidth), cy \in DrawCentres(CanvasHeight),
            sx \in DrawSizes, sy \in DrawSizes} :
     /\ RLe(I(0), RSub(b.center[1], RDiv(b.size[1], I(2))))
     /\ RLe(RAdd(b.center[1], RDiv(b.size[1], I(2))), I(CanvasWidth - 1))
     /\ RLe(I(0), RSub(b.center[2], RDiv(b.size[2], I(2))))
     /\ RLe(RAdd(b.center[2], RDiv(b.size[2], I(2))), I(CanvasHeight - 1))}

\* DrawBoundingBox is called with a 2D box
CallDrawBoundingBox ==
  /\ draw.pc = "idle"
  /\ \E _data \in CanvasContents, _box \in DrawBoxes :
       draw' = [DrawIdle EXCEPT !.pc = "box", !.before = _data, !.box = _box,
                                !.data = DrawBoundingBox(_data, _box)]
  /\ UNCHANGED <<clip, lines, dataPtr, connections, texture, ogreIdName, items,
               scan, op, merge, codec>>

\* DrawLine is called with two pixels of the image
CallDrawLine ==
  /\ draw.pc = "idle"
  /\ \E _data \in CanvasContents, _point1 \in CanvasPixels, _point2 \in CanvasPixels :
       draw' = [DrawIdle EXCEPT
                  !.pc = "line", !.before = _data,
                  !.point1 = _point1, !.point2 = _point2,
                  !.plotted = DrawLine(_point1, _point2),
                  !.data = Plot(_data, {DrawLine(_point1, _point2)[i] :
                                          i \in DOMAIN DrawLine(_point1, _point2)})]
  /\ UNCHANGED <<clip, lines, dataPtr, connections, texture, ogreIdName, items,
               scan, op, merge, codec>>

\* the projections of the 8 vertices of a 3D box: a box inside the view, and
\* one reaching over every edge of it
ProjectedBoxes ==
  {<<Vec2(Rat(1, 2), Rat(1, 2)), Vec2(Rat(-1, 2), Rat(1, 2)),
     Vec2(I(-1), I(0)), Vec2(I(0), I(0)),
     Vec2(Rat(1, 2), Rat(-1, 2)), Vec2(Rat(-1, 2), Rat(-1, 2)),
     Vec2(I(-1), I(-1)), Vec2(I(0), I(-1))>>,
   <<Vec2(I(2), I(1)), Vec2(I(-1), I(2)),
     Vec2(I(-2), I(0)), Vec2(I(1), I(0)),
     Vec2(I(2), I(-1)), Vec2(I(-1), I(-1)),
     Vec2(I(-2), I(-2)), Vec2(I(0), I(-2))>>}

\* the vertices of the 3D boxes: any of the 8 may be behind the camera
BoxVertices ==
  {[i \in 1..8 |-> [z |-> IF i \in behind THEN 1 ELSE -1, projected |-> pb[i]]] :
     behind \in SUBSET (1..8), pb \in ProjectedBoxes}

\* DrawBoundingBox is called with a 3D box
CallDrawBoundingBox3D ==
  /\ draw.pc = "idle"
  /\ \E _data \in CanvasContents, vertices \in BoxVertices :
       draw' = [DrawIdle EXCEPT
                  !.pc = "box3d", !.before = _data,
                  !.box = [NewBoundingBox EXCEPT !.type = BBT_BOX3D],
                  !.vertices = vertices,
                  !.clippedVertices = ClippedVertices(vertices),
                  !.plotted = DrawBoundingBox3D(vertices),
                  !.data = Plot(_data, {DrawBoundingBox3D(vertices)[i] :
                                          i \in DOMAIN DrawBoundingBox3D(vertices)})]
  /\ UNCHANGED <<clip, lines, dataPtr, connections, texture, ogreIdName, items,
               scan, op, merge, codec>>

\* the caller is done with the image
DrawReturns ==
  /\ draw.pc \in {"box", "box3d", "line"}
  /\ draw' = DrawIdle
  /\ UNCHANGED <<clip, lines, dataPtr, connections, texture, ogreIdName, items,
               scan, op, merge, codec>>


----------------------------------------------------------------------------
(* the ogre id written into and read from the id channels of a pixel *)

\* the values of an 8-bit channel
Bytes == 0..255

\* the ids of 16 bits
OgreIds == 0..65535

\* the material switcher's encoding of an id: <<idHigh, idLow>>
EncodeOgreId(id) == <<id \div 256, id % 256>>

CodecIdle == [pc |-> "idle", id |-> 0, ogreId1 |-> 0, ogreId2 |-> 0, ogreId |-> 0]

\* the material switcher writes the id of an item into a pixel
WriteOgreId ==
  /\ codec.pc = "idle"
  /\ \E id \in OgreIds :
       codec' = [CodecIdle EXCEPT !.pc = "written", !.id = id,
                                  !.ogreId1 = EncodeOgreId(id)[1],
                                  !.ogreId2 = EncodeOgreId(id)[2]]
  /\ UNCHANGED <<clip, lines, dataPtr, connections, texture, ogreIdName, items,
               scan, op, merge, draw>>

\* the scanner decodes the pixel the material switcher wrote
ReadOgreId ==
  /\ codec.pc = "written"
  /\ codec' = [codec EXCEPT !.pc = "read",
                            !.ogreId = DecodeOgreId(codec.ogreId1, codec.ogreId2)]
  /\ UNCHANGED <<clip, lines, dataPtr, connections, texture, ogreIdName, items,
               scan, op, merge, draw>>

\* the scanner decodes a pixel of any content
ReadPixel ==
  /\ codec.pc = "idle"
  /\ \E b1 \in Bytes, b0 \in Bytes :
       codec' = [CodecIdle EXCEPT !.pc = "pixel", !.ogreId1 = b1, !.ogreId2 = b0,
                                  !.ogreId = DecodeOgreId(b1, b0)]
  /\ UNCHANGED <<clip, lines, dataPtr, connections, texture, ogreIdName, items,
               scan, op, merge, draw>>

\* the scanner moves on to the next pixel
NextPixel ==
  /\ codec.pc \in {"read", "pixel"}
  /\ codec' = CodecIdle
  /\ UNCHANGED <<clip, lines, dataPtr, connections, texture, ogreIdName, items,
               scan, op, merge, draw>>

----------------------------------------------------------------------------
(* specifications *)

CameraConstructed ==
  /\ dataPtr = NewDataPtr
  /\ connections = 0
  /\ texture = BlankFrame
  /\ ogreIdName = EmptyMap
  /\ items = <<>>
  /\ scan = NoScan
  /\ op = "other"

\* the frame cycle of one camera
Init ==
  /\ CameraConstructed
  /\ clip = ClipIdle
  /\ lines = <<>>
  /\ merge = MergeIdle
  /\ draw = DrawIdle
  /\ codec = CodecIdle

Next ==
  \/ PreRender
  \/ Render
  \/ PostRender
  \/ ConnectNewBoundingBoxes
  \/ Disconnect
  \/ SetBoundingBoxType

Spec == Init /\ [][Next]_vars

\* one rendered frame, of any content, processed by a subscribed camera
InitFrame ==
  /\ dataPtr \in {[NewDataPtr EXCEPT !.type = t] : t \in {BBT_VISIBLEBOX2D, BBT_FULLBOX2D}}
  /\ connections = 1
  /\ texture \in Frames
  /\ ogreIdName \in NameMaps
  /\ items = DefaultItems
  /\ scan = NoScan
  /\ op = "other"
  /\ clip = ClipIdle
  /\ lines = <<>>
  /\ merge = MergeIdle
  /\ draw = DrawIdle
  /\ codec = CodecIdle

NextFrame == ~scan.ran /\ PostRender

SpecFrame == InitFrame /\ [][NextFrame]_vars

\* one frame processed by the full-projection or the 3D builder, over items of
\* any projected extent
InitBuilders ==
  /\ dataPtr \in {[NewDataPtr EXCEPT !.type = t] : t \in {BBT_FULLBOX2D, BBT_BOX3D}}
  /\ connections = 1
  /\ texture \in BuilderFrames
  /\ ogreIdName = [id \in {1, 2} |-> IF id = 1 THEN "robot" ELSE "arm"]
  /\ items \in BuilderItems
  /\ scan = NoScan
  /\ op = "other"
  /\ clip = ClipIdle
  /\ lines = <<>>
  /\ merge = MergeIdle
  /\ draw = DrawIdle
  /\ codec = CodecIdle

SpecBuilders == InitBuilders /\ [][NextFrame]_vars

\* calls of AddToViewportLines, one after the other
InitClip ==
  /\ CameraConstructed
  /\ lines = <<>>
  /\ clip = ClipIdle
  /\ merge = MergeIdle
  /\ draw = DrawIdle
  /\ codec = CodecIdle

NextClip ==
  \/ CallAddToViewportLines
  \/ ClipToViewPortLoop
  \/ AddToViewportLines
  \/ CallerReturns

SpecClip == InitClip /\ [][NextClip]_vars

\* a call that has started runs on: the loop takes its next iteration and the
\* caller goes on once ClipToViewPort has returned
LiveSpecClip ==
  SpecClip /\ WF_vars(ClipToViewPortLoop) /\ WF_vars(AddToViewportLines)

\* MergeBoxes2D called on groups, on their parts and on the merged parts
NextMerge ==
  \/ CallMergeBoxes2D
  \/ MergeSubGroups
  \/ MergeMergedBoxes
  \/ MergeReturns

SpecMerge == Init /\ [][NextMerge]_vars

\* drawing calls on the image of a caller
NextDraw ==
  \/ CallDrawBoundingBox
  \/ CallDrawBoundingBox3D
  \/ CallDrawLine
  \/ DrawReturns

SpecDraw == Init /\ [][NextDraw]_vars

\* ids written into pixels and read back, and pixels of any content read
NextCodec ==
  \/ WriteOgreId
  \/ ReadOgreId
  \/ ReadPixel
  \/ NextPixel

SpecCodec == Init /\ [][NextCodec]_vars

----------------------------------------------------------------------------
(* Properties of the viewport clipper *)

InsideViewport(b, p) ==
  RLe(b[1], p[1]) /\ RLe(p[1], b[3]) /\ RLe(b[2], p[2]) /\ RLe(p[2], b[4])

\* both points lie outside across the same side of b
SharedSide(b, p, q) ==
  \/ RLt(p[1], b[1]) /\ RLt(q[1], b[1])
  \/ RLt(b[3], p[1]) /\ RLt(b[3], q[1])
  \/ RLt(p[2], b[2]) /\ RLt(q[2], b[2])
  \/ RLt(b[4], p[2]) /\ RLt(b[4], q[2])

\* the sides of b that p lies beyond
SidesBeyond(b, p) ==
  {side \in {"left", "right", "bottom", "top"} :
     \/ side = "left" /\ RLt(p[1], b[1])
     \/ side = "right" /\ RLt(b[3], p[1])
     \/ side = "bottom" /\ RLt(p[2], b[2])
     \/ side = "top" /\ RLt(b[4], p[2])}

\* p lies on the boundary line of b named side
OnSide(b, p, side) ==
  \/ side = "left" /\ p[1] = b[1]
  \/ side = "right" /\ p[1] = b[3]
  \/ side = "bottom" /\ p[2] = b[2]
  \/ side = "top" /\ p[2] = b[4]

\* C3: a segment with both endpoints inside the viewport (boundary included) is
\* returned unchanged by ClipToViewPort, and AddToViewportLines appends exactly
\* p0 followed by p1 to the line list.
C3_InsideUnchanged ==
  (clip.pc = "done" /\ InsideViewport(clip.bounds, clip.p0)
     /\ InsideViewport(clip.bounds, clip.p1))
  => /\ clip.returned = <<clip.p0, clip.p1>>
     /\ lines = clip.linesBefore \o <<clip.p0, clip.p1>>

\* a call with both endpoints inside, one of them on the boundary, has returned
\* and the line list held an earlier segment
C3_Witness ==
  /\ clip.pc = "done"
  /\ InsideViewport(clip.bounds, clip.p0) /\ InsideViewport(clip.bounds, clip.p1)
  /\ clip.p0 # clip.p1
  /\ clip.p1[1] = clip.bounds[3]
  /\ clip.linesBefore # <<>>
  /\ Len(lines) = 4

\* C4: a segment whose endpoints lie outside the viewport on one shared side
\* makes ClipToViewPort return the not-a-number pair, and AddToViewportLines
\* leaves the line list unchanged.
C4_SharedSideRejected ==
  (clip.pc = "done" /\ SharedSide(clip.bounds, clip.p0, clip.p1))
  => /\ clip.returned = <<Vector2dNaN, Vector2dNaN>>
     /\ lines = clip.linesBefore

\* a call with both endpoints above the viewport has returned while the line
\* list held an earlier segment
C4_Witness ==
  /\ clip.pc = "done"
  /\ RLt(clip.bounds[4], clip.p0[2]) /\ RLt(clip.bounds[4], clip.p1[2])
  /\ clip.p0 # clip.p1
  /\ clip.linesBefore # <<>>
  /\ lines = clip.linesBefore

\* C5: with one endpoint inside the viewport and the other outside across
\* exactly one boundary, ClipToViewPort accepts, returns the inside endpoint
\* unchanged in its position of the pair, and returns the other endpoint on
\* exactly that boundary's coordinate.
C5_OneBoundaryCrossed ==
  /\ (clip.pc = "done" /\ InsideViewport(clip.bounds, clip.p0)
        /\ Cardinality(SidesBeyond(clip.bounds, clip.p1)) = 1)
     => /\ clip.accept
        /\ clip.returned[1] = clip.p0
        /\ \A side \in SidesBeyond(clip.bounds, clip.p1) :
             OnSide(clip.bounds, clip.returned[2], side)
  /\ (clip.pc = "done" /\ InsideViewport(clip.bounds, clip.p1)
        /\ Cardinality(SidesBeyond(clip.bounds, clip.p0)) = 1)
     => /\ clip.accept
        /\ clip.returned[2] = clip.p1
        /\ \A side \in SidesBeyond(clip.bounds, clip.p0) :
             OnSide(clip.bounds, clip.returned[1], side)

\* a call whose first endpoint lies beyond the left side only and whose second
\* endpoint lies strictly inside, off the first one's row, has returned
C5_Witness ==
  /\ clip.pc = "done"
  /\ SidesBeyond(clip.bounds, clip.p0) = {"left"}
  /\ InsideViewport(clip.bounds, clip.p1)
  /\ clip.p0[2] # clip.p1[2]
  /\ clip.iter = 1
  /\ clip.returned[1] # clip.p0

\* C6: for every pair of endpoints and every viewport with xmin <= xmax and
\* ymin <= ymax the loop of ClipToViewPort terminates: the call reaches its
\* return, by the accept branch or a reject branch.
C6_ClipTerminates == (clip.pc = "loop") ~> (clip.pc = "done")

\* a call has returned after its loop clipped three times or more
C6_Witness ==
  /\ clip.pc = "done"
  /\ clip.iter >= 3

\* the loop of ClipToViewPort is about to take its clipping branch
ClippingBranch(c) ==
  /\ c.pc = "loop"
  /\ BitOr(c.location0, c.location1) # 0
  /\ BitAnd(c.location0, c.location1) = 0

\* C23: in every clipping iteration of ClipToViewPort, for every input segment
\* and viewport, the denominator of the intersection formula that is used is
\* not zero: y1 - y0 # 0 when the TOP or BOTTOM bit of the chosen outcode
\* selects the formula, x1 - x0 # 0 when the RIGHT or LEFT bit selects it.
C23_NoZeroDenominator ==
  /\ ~clip.zeroDiv
  /\ ClippingBranch(clip)
     => LET outerLocation == OuterLocation(clip)
            pt == ClipIntersection(clip, outerLocation)
        IN  /\ pt[4] => pt[3][1] # 0
            /\ (HasBit(outerLocation, kTop) \/ HasBit(outerLocation, kBottom))
               => clip.y1 # clip.y0
            /\ (~HasBit(outerLocation, kTop) /\ ~HasBit(outerLocation, kBottom)
                  /\ (HasBit(outerLocation, kRight) \/ HasBit(outerLocation, kLeft)))
               => clip.x1 # clip.x0

\* a vertical segment is about to be clipped at the top, and a horizontal one
\* was clipped at the right
C23_Witness ==
  \/ /\ ClippingBranch(clip)
     /\ HasBit(OuterLocation(clip), kTop)
     /\ clip.x1 = clip.x0
  \/ /\ clip.pc = "done" /\ clip.iter >= 1
     /\ clip.p0[2] = clip.p1[2]
     /\ HasBit(clip.outer, kRight)

\* C24: the internal-error branch of ClipToViewPort (no boundary bit found in
\* the chosen outcode) is unreachable: whenever the loop reaches the clipping
\* branch the chosen outcode is not zero and has at least one of the TOP,
\* BOTTOM, RIGHT, LEFT bits set, for every input segment and viewport.
C24_NoInternalError ==
  /\ ~clip.noBit
  /\ ClippingBranch(clip)
     => /\ OuterLocation(clip) # 0
        /\ \E bit \in {kTop, kBottom, kRight, kLeft} : HasBit(OuterLocation(clip), bit)
        /\ ClipIntersection(clip, OuterLocation(clip))[4]

\* the clipping branch is reached with one endpoint inside (outcode 0)
C24_Witness ==
  /\ ClippingBranch(clip)
  /\ clip.location0 = kInside
  /\ clip.location1 # kInside
  /\ clip.iter >= 1

\* the boundary coordinate the clipping branch moves a point with outcode
\* outerLocation to, with priority TOP, BOTTOM, RIGHT, LEFT: <<axis, value>>
BoundaryByPriority(c, outerLocation) ==
  IF HasBit(outerLocation, kTop) THEN <<2, c.bounds[4]>>
  ELSE IF HasBit(outerLocation, kBottom) THEN <<2, c.bounds[2]>>
  ELSE IF HasBit(outerLocation, kRight) THEN <<1, c.bounds[3]>>
  ELSE <<1, c.bounds[1]>>

\* C25: in each clipping iteration of ClipToViewPort the endpoint that is moved
\* is the one with the numerically larger outcode, the boundary it is moved to
\* is chosen with priority TOP, then BOTTOM, then RIGHT, then LEFT among the
\* bits set in that outcode, only that endpoint's coordinates and outcode
\* change, and the two outcodes are never equal when the clipping branch is
\* entered.
C25_LargerOutcodeMoved ==
  [][(ClippingBranch(clip) /\ ClipToViewPortLoop)
     => /\ clip.location0 # clip.location1
        /\ clip'.bounds = clip.bounds /\ clip'.p0 = clip.p0 /\ clip'.p1 = clip.p1
        /\ clip'.pc = "loop" /\ ~clip'.accept
        /\ clip.location0 > clip.location1
           => /\ <<clip'.x1, clip'.y1, clip'.location1>>
                   = <<clip.x1, clip.y1, clip.location1>>
              /\ <<clip'.x0, clip'.y0>>[BoundaryByPriority(clip, clip.location0)[1]]
                   = BoundaryByPriority(clip, clip.location0)[2]
              /\ clip'.location0
                   = LocationRelativeToViewPort(clip.bounds, clip'.x0, clip'.y0)
        /\ clip.location1 > clip.location0
           => /\ <<clip'.x0, clip'.y0, clip'.location0>>
                   = <<clip.x0, clip.y0, clip.location0>>
              /\ <<clip'.x1, clip'.y1>>[BoundaryByPriority(clip, clip.location1)[1]]
                   = BoundaryByPriority(clip, clip.location1)[2]
              /\ clip'.location1
                   = LocationRelativeToViewPort(clip.bounds, clip'.x1, clip'.y1)]_vars

\* the second endpoint, beyond the top and the right side, was moved to the top
\* boundary and is still to the right of the viewport
C25_Witness ==
  /\ clip.pc = "loop"
  /\ clip.iter = 1
  /\ clip.outer = kTop + kRight
  /\ clip.moved = "p1"
  /\ clip.y1 = clip.bounds[4]
  /\ clip.location1 = kRight
  /\ <<clip.x0, clip.y0>> = clip.p0

\* p lies on the segment from a to b
OnSegment(p, a, b) ==
  /\ RSub(RMul(RSub(b[1], a[1]), RSub(p[2], a[2])),
          RMul(RSub(b[2], a[2]), RSub(p[1], a[1]))) = I(0)
  /\ \A axis \in {1, 2} :
       \/ RLe(a[axis], p[axis]) /\ RLe(p[axis], b[axis])
       \/ RLe(b[axis], p[axis]) /\ RLe(p[axis], a[axis])

\* C26: whenever ClipToViewPort accepts a segment, both returned endpoints lie
\* inside the viewport rectangle (boundary included) and both lie on the
\* original segment between the original endpoints, the first returned point
\* being the clipped image of p0 and the second of p1.
C26_AcceptedInsideOnSegment ==
  (clip.pc = "done" /\ IsFinite(clip.returned[1]) /\ IsFinite(clip.returned[2]))
  => /\ clip.accept
     /\ InsideViewport(clip.bounds, clip.returned[1])
     /\ InsideViewport(clip.bounds, clip.returned[2])
     /\ OnSegment(clip.returned[1], clip.p0, clip.p1)
     /\ OnSegment(clip.returned[2], clip.p0, clip.p1)
     /\ OnSegment(clip.returned[1], clip.p0, clip.returned[2])
     /\ OnSegment(clip.returned[2], clip.returned[1], clip.p1)

\* a segment with both endpoints outside was accepted after both were moved
C26_Witness ==
  /\ clip.pc = "done" /\ clip.accept
  /\ ~InsideViewport(clip.bounds, clip.p0) /\ ~InsideViewport(clip.bounds, clip.p1)
  /\ clip.returned[1] # clip.p0 /\ clip.returned[2] # clip.p1
  /\ clip.returned[1] # clip.returned[2]

----------------------------------------------------------------------------
(* Properties of the scanner and the merger, over one processed frame *)

ImagePixels == (0..(ImageWidth - 1)) \X (0..(ImageHeight - 1))

LabelAt(buf, px) == Byte(buf, px[1], px[2], 2)

\* the object id the two id channels of a pixel spell
IdAt(buf, px) == Byte(buf, px[1], px[2], 1) * 256 + Byte(buf, px[1], px[2], 0)

\* the pixels whose label channel is not the background label
ObjectPixels(buf) == {px \in ImagePixels : LabelAt(buf, px) # backgroundLabel}

ObjectIds(buf) == {IdAt(buf, px) : px \in ObjectPixels(buf)}

PixelsOfId(buf, id) == {px \in ObjectPixels(buf) : IdAt(buf, px) = id}

SetMax(S) == CHOOSE x \in S : \A y \in S : y <= x

\* the extrema of the non-background pixels of id
ExtremaOf(buf, id) ==
  LET xs == {px[1] : px \in PixelsOfId(buf, id)}
      ys == {px[2] : px \in PixelsOfId(buf, id)}
  IN  [minX |-> SetMin(xs), minY |-> SetMin(ys),
       maxX |-> SetMax(xs), maxY |-> SetMax(ys)]

\* the non-background pixels of buf are exactly the pixels of the rectangle r,
\* all of one object id and one label
IsSolidBlock(buf, r) ==
  /\ ObjectPixels(buf) = {px \in ImagePixels : Covers(r, px[1], px[2])}
  /\ \A px \in ObjectPixels(buf) :
       /\ IdAt(buf, px) = IdAt(buf, <<r.x0, r.y0>>)
       /\ LabelAt(buf, px) = LabelAt(buf, <<r.x0, r.y0>>)

\* the box the block r of w x h pixels is to yield: size (w, h, 0), centred on
\* the block
BlockBox(buf, r) ==
  LET w == r.x1 - r.x0 + 1
      h == r.y1 - r.y0 + 1
  IN  [NewBoundingBox EXCEPT
         !.type = BBT_VISIBLEBOX2D,
         !.center = <<Rat(2 * r.x0 + w, 2), Rat(2 * r.y0 + h, 2), I(0)>>,
         !.size = <<I(w), I(h), I(0)>>,
         !.label = LabelAt(buf, <<r.x0, r.y0>>)]

\* C1: in visible-pixel mode a frame whose only non-background pixels form one
\* solid block of w x h pixels of a single object yields exactly one output
\* box, of the visible-2D type, with size (w, h, 0), centre at the block's
\* centre and the block's label.
C1_SolidBlockBox ==
  (scan.ran /\ scan.type = BBT_VISIBLEBOX2D)
  => \A r \in Rects :
       IsSolidBlock(dataPtr.buffer, r)
       => dataPtr.outputBoxes = <<BlockBox(dataPtr.buffer, r)>>

\* the least and the greatest of a non-empty set of doubles
RMinOf(S) == CHOOSE a \in S : \A b \in S : RLe(a, b)

RMaxOf(S) == CHOOSE a \in S : \A b \in S : RLe(b, a)

\* the corners of a 2D box along axis: centre -/+ size / 2
LowCorner(box, axis) == RSub(box.center[axis], RDiv(box.size[axis], I(2)))

HighCorner(box, axis) == RAdd(box.center[axis], RDiv(box.size[axis], I(2)))

\* box is the axis-aligned union of the boxes of the sequence members
IsUnionOf(box, members) ==
  \A axis \in {1, 2} :
    LET lo == RMinOf({LowCorner(members[i], axis) : i \in 1..Len(members)})
        hi == RMaxOf({HighCorner(members[i], axis) : i \in 1..Len(members)})
    IN  /\ box.size[axis] = RSub(hi, lo)
        /\ box.center[axis] = RDiv(RAdd(lo, hi), I(2))

\* C2: MergeBoxes2D applied to a group of two or more 2D boxes returns their
\* axis-aligned union: minimum corner the componentwise minimum of the members'
\* centre - size/2, maximum corner the componentwise maximum of their
\* centre + size/2, size max - min and centre the midpoint; the merged box of
\* every such group of the frame is in the output.
C2_MergedIsUnion ==
  scan.ran
  => \A n \in DOMAIN scan.parentNameToBoxes :
       Len(scan.parentNameToBoxes[n]) >= 2
       => /\ IsUnionOf(MergeBoxes2D(scan.parentNameToBoxes[n], scan.type),
                       scan.parentNameToBoxes[n])
          /\ \E i \in 1..Len(dataPtr.outputBoxes) :
               IsUnionOf(dataPtr.outputBoxes[i], scan.parentNameToBoxes[n])

\* C10: a pixel whose label channel equals backgroundLabel changes no object's
\* pixel extrema and adds no entry to the visibility map or to the per-object
\* box map, whatever its id channels hold: the extrema and the entries are those
\* of the non-background pixels alone; a frame of background pixels only yields
\* an empty output.
C10_BackgroundIgnored ==
  scan.ran
  => /\ scan.type = BBT_VISIBLEBOX2D
        => /\ DOMAIN scan.boundary = ObjectIds(dataPtr.buffer)
           /\ DOMAIN scan.boundingboxes = ObjectIds(dataPtr.buffer)
           /\ \A id \in DOMAIN scan.boundary :
                scan.boundary[id] = ExtremaOf(dataPtr.buffer, id)
     /\ scan.type = BBT_FULLBOX2D
        => /\ DOMAIN scan.visibleBoxesLabel = ObjectIds(dataPtr.buffer)
           /\ DOMAIN scan.boundingboxes \subseteq ObjectIds(dataPtr.buffer)
     /\ ObjectPixels(dataPtr.buffer) = {} => dataPtr.outputBoxes = <<>>

\* a visible-mode frame was scanned in which a background-labelled pixel
\* carries the id bytes of object 1 and lies outside the extent of the pixels
\* of object 1
C10_Witness ==
  /\ scan.ran /\ scan.type = BBT_VISIBLEBOX2D
  /\ 1 \in DOMAIN scan.boundary
  /\ \E px \in ImagePixels :
       /\ LabelAt(dataPtr.buffer, px) = backgroundLabel
       /\ IdAt(dataPtr.buffer, px) = 1
       /\ \/ px[1] < scan.boundary[1].minX \/ px[1] > scan.boundary[1].maxX
          \/ px[2] < scan.boundary[1].minY \/ px[2] > scan.boundary[1].maxY

----------------------------------------------------------------------------
(* Properties of the frame cycle *)

\* the six scratch maps of the camera are empty
ScratchEmpty(d) ==
  /\ d.boundingboxes = EmptyMap
  /\ d.visibleBoxesLabel = EmptyMap
  /\ d.parentNameToBoxes = EmptyMap
  /\ d.parentNameToOgreIds = EmptyMap
  /\ d.itemVertices = EmptyMap
  /\ d.ogreIdToItem = EmptyMap

\* C7: whenever PostRender has run with zero subscribers connected, the output
\* box sequence read through BoundingBoxData is empty and no scratch structure
\* holds anything, whatever PreRender, PostRender, subscribe and unsubscribe
\* operations came before.
C7_NoSubscribersEmptyOutput ==
  (op = "PostRender" /\ connections = 0)
  => /\ dataPtr.outputBoxes = <<>>
     /\ ScratchEmpty(dataPtr)

\* the output of processing the frame in dataPtr.buffer on its own, in the mode
\* and with the parent names of the last processed frame
BoxesOfLatestFrame ==
  RunPipeline([NewDataPtr EXCEPT !.type = scan.type, !.buffer = dataPtr.buffer],
              scan.names).outputBoxes

\* C8: after any sequence of PreRender and PostRender calls the output box
\* sequence holds only the boxes of the most recently processed frame: no box
\* of an earlier frame remains in it, is duplicated or is reordered.
C8_OnlyLatestFrame ==
  (op = "PostRender" /\ connections > 0)
  => dataPtr.outputBoxes = BoxesOfLatestFrame

\* C9: whenever PostRender has returned, with or without subscribers and in
\* any box-type mode, the per-object box map, the visibility map, both
\* parent-group maps, the per-object vertex map and the id-to-item map are
\* empty, so that each frame's processing starts from empty scratch state.
C9_ScratchCleared == ScratchEmpty(dataPtr)

\* PostRender has just processed a 3D frame that filled the box map, the
\* visibility map, the group map and the id-to-item map
C9_Witness ==
  /\ op = "PostRender" /\ connections > 0
  /\ scan.ran /\ scan.type = BBT_BOX3D
  /\ scan.boundingboxes # EmptyMap
  /\ scan.visibleBoxesLabel # EmptyMap
  /\ scan.parentNameToOgreIds # EmptyMap
  /\ scan.ogreIdToItem # EmptyMap
  /\ ScratchEmpty(dataPtr)

----------------------------------------------------------------------------
(* Further properties of one processed frame *)

\* the position of a pixel in row-major scan order
ScanIndex(px) == px[2] * ImageWidth + px[1]

\* the label of the first non-background pixel of id in scan order
FirstLabelOf(buf, id) ==
  LabelAt(buf, CHOOSE px \in PixelsOfId(buf, id) :
                 \A q \in PixelsOfId(buf, id) : ScanIndex(px) <= ScanIndex(q))

\* C11: for every object id that occurs in the buffer with a non-background
\* label, the label recorded for it in the visibility map, and as the label of
\* its visible-pixel box, is the label of the first such pixel in row-major
\* scan order; later pixels of the id with another label never change it.
C11_FirstLabelWins ==
  scan.ran
  => /\ scan.type = BBT_VISIBLEBOX2D
        => \A id \in ObjectIds(dataPtr.buffer) :
             /\ id \in DOMAIN scan.boundingboxes
             /\ scan.boundingboxes[id].label = FirstLabelOf(dataPtr.buffer, id)
     /\ scan.type = BBT_FULLBOX2D
        => \A id \in ObjectIds(dataPtr.buffer) :
             /\ id \in DOMAIN scan.visibleBoxesLabel
             /\ scan.visibleBoxesLabel[id] = FirstLabelOf(dataPtr.buffer, id)

\* a full-mode frame was processed in which object 1 shows two labels, and the
\* label of its last pixel is not the one recorded
C11_Witness ==
  /\ scan.ran /\ scan.type = BBT_FULLBOX2D
  /\ 1 \in DOMAIN scan.visibleBoxesLabel
  /\ \E px \in PixelsOfId(dataPtr.buffer, 1) :
       /\ \A q \in PixelsOfId(dataPtr.buffer, 1) : ScanIndex(q) <= ScanIndex(px)
       /\ LabelAt(dataPtr.buffer, px) # scan.visibleBoxesLabel[1]

----------------------------------------------------------------------------
(* Properties of MergeBoxes2D as a function *)

\* C12: the 2D merge is idempotent: a group of exactly one box merges into that
\* box, unchanged, and for every group and every split of it into sub-groups,
\* merging the merged boxes of the sub-groups gives the centre and the size of
\* a single merge of the whole group.
C12_MergeIdempotent ==
  /\ (merge.pc # "idle" /\ Len(merge.boxes) = 1) => merge.whole = merge.boxes[1]
  /\ merge.pc = "done"
     => /\ merge.remerged.center = merge.whole.center
        /\ merge.remerged.size = merge.whole.size

----------------------------------------------------------------------------
(* Further properties of the frame cycle *)

\* the parent names of the boxes of the last processed frame
GroupNames ==
  {ParentNameOf(scan.names, id) : id \in DOMAIN scan.boundingboxes}

\* the i-th of the group names in descending order
DescendingName(i) ==
  CHOOSE n \in GroupNames :
    Cardinality({m \in GroupNames : NameRank(m) > NameRank(n)}) = i - 1

\* the ogre ids of a parent, in key order
IdsOfParent(n) ==
  Ascending({id \in DOMAIN scan.boundingboxes : ParentNameOf(scan.names, id) = n})

\* the box the merge emits for the group of parent n
GroupBox(n) ==
  LET ids == IdsOfParent(n)
  IN  IF scan.type = BBT_BOX3D
      THEN MergeGroups3D(<<n>>, Put(EmptyMap, n, ids), scan)[1]
      ELSE MergeBoxes2D([i \in 1..Len(ids) |-> scan.boundingboxes[ids[i]]],
                        scan.type)

\* C13: for every frame processed, in the 2D and in the 3D merge, the emitted
\* sequence lists the merged boxes in the reverse of the order in which the
\* parent groups are iterated: the groups are iterated by ascending parent
\* name, so the merged boxes stand in descending parent-name order.
C13_ReverseGroupOrder ==
  (op = "PostRender" /\ connections > 0)
  => /\ Len(dataPtr.outputBoxes) >= Cardinality(GroupNames)
     /\ \A i \in 1..Cardinality(GroupNames) :
          dataPtr.outputBoxes[i] = GroupBox(DescendingName(i))

\* a frame with the groups "arm" and "robot" whose merged boxes differ
C13_Witness ==
  /\ op = "PostRender" /\ connections > 0
  /\ scan.type = BBT_VISIBLEBOX2D
  /\ GroupNames = {"arm", "robot"}
  /\ GroupBox("arm") # GroupBox("robot")
  /\ dataPtr.outputBoxes[1] = GroupBox("robot")
  /\ dataPtr.outputBoxes[2] = GroupBox("arm")

----------------------------------------------------------------------------
(* Properties of the full-projection and 3D builders *)

\* the projected extent of item k: its lowest and its highest corner
ExtentOf(k) ==
  LET coords(axis) == {items[k].vertices[i][axis] : i \in DOMAIN items[k].vertices}
  IN  <<Vec2(RMinOf(coords(1)), RMinOf(coords(2))),
        Vec2(RMaxOf(coords(1)), RMaxOf(coords(2)))>>

\* on one axis at least the whole extent lies beyond the same edge of [-1, 1]
OffScreen(e) ==
  \E axis \in {1, 2} : RLt(e[2][axis], I(-1)) \/ RLt(I(1), e[1][axis])

\* item k is in the visibility map of the processed frame and passes the
\* frustum test
VisibleInFrustum(k) ==
  /\ items[k].id \in DOMAIN scan.visibleBoxesLabel
  /\ items[k].isVisible

\* C14: in full-projected 2D mode a visible, in-frustum object is discarded
\* exactly when its projected extent is fully off-screen, that is when on at
\* least one axis its projected minimum and maximum both lie outside [-1, 1] on
\* the same side; an object whose projected interval overlaps [-1, 1] on both
\* axes always produces a box.
C14_DiscardedIffOffScreen ==
  (scan.ran /\ scan.type = BBT_FULLBOX2D)
  => \A k \in 1..Len(items) :
       VisibleInFrustum(k)
       => (items[k].id \notin DOMAIN scan.boundingboxes <=> OffScreen(ExtentOf(k)))

\* box lies within the image: its corners centre -/+ size / 2 are pixel
\* coordinates
WithinImage(box) ==
  /\ RLe(I(0), LowCorner(box, 1))
  /\ RLe(HighCorner(box, 1), I(ImageWidth - 1))
  /\ RLe(I(0), LowCorner(box, 2))
  /\ RLe(HighCorner(box, 2), I(ImageHeight - 1))

\* C15: every full-projected 2D box that is emitted lies within the image: for
\* every projected min/max pair that is not discarded, both corners that
\* ConvertToScreenCoord produces satisfy 0 <= x <= width - 1 and
\* 0 <= y <= height - 1, so centre - size / 2 >= 0 and centre + size / 2 is at
\* most width - 1 (height - 1).
C15_FullBoxWithinImage ==
  (scan.ran /\ scan.type = BBT_FULLBOX2D)
  => \A id \in DOMAIN scan.boundingboxes : WithinImage(scan.boundingboxes[id])

\* the size components of a 2D box are not negative and the third is zero
SizeOf2DBoxValid(box) ==
  /\ RLe(I(0), box.size[1])
  /\ RLe(I(0), box.size[2])
  /\ box.size[3] = I(0)

\* C16: every box of the output sequence, in every box-type mode, before and
\* after merging, has size components that are not negative, and every 2D box
\* (visible-pixel or full-projected, merged or not) has size.Z = 0.
C16_SizeNotNegative ==
  (scan.ran /\ scan.type # BBT_BOX3D)
  => /\ \A id \in DOMAIN scan.boundingboxes :
          SizeOf2DBoxValid(scan.boundingboxes[id])
     /\ \A i \in DOMAIN dataPtr.outputBoxes :
          SizeOf2DBoxValid(dataPtr.outputBoxes[i])

\* the box the builder of the processed frame makes of item k taken alone,
\* before its label is set
ItemBox(k) ==
  IF scan.type = BBT_FULLBOX2D
  THEN LET mm == MeshMinimalBox(items[k].vertices)
           px == ConvertToScreenCoord(mm[1], mm[2])
       IN  FullBox(px[1], px[2])
  ELSE [NewBoundingBox EXCEPT
          !.type = BBT_BOX3D,
          !.center = [viewPosition |-> items[k].id],
          !.size = [size |-> items[k].id],
          !.orientation = [bodyCameraRotation |-> items[k].id]]

\* C17: in full-projected 2D mode and in 3D mode a per-object box is created
\* only for an object that is in the visibility map and is accepted by the
\* frustum test, and its label is the label the visibility map holds for its
\* id; an object failing either condition produces no box and does not affect
\* the boxes of the other objects; the label-assignment step never adds an
\* entry to the visibility map.
C17_OnlyVisibleInFrustum ==
  (scan.ran /\ scan.type \in {BBT_FULLBOX2D, BBT_BOX3D})
  => /\ \A id \in DOMAIN scan.boundingboxes :
          \E k \in 1..Len(items) :
            /\ items[k].id = id
            /\ VisibleInFrustum(k)
            /\ id \in ObjectIds(dataPtr.buffer)
            /\ scan.boundingboxes[id].label = FirstLabelOf(dataPtr.buffer, id)
            /\ scan.boundingboxes[id]
                 = [ItemBox(k) EXCEPT !.label = scan.boundingboxes[id].label]
     /\ \A k \in 1..Len(items) :
          ~VisibleInFrustum(k) => items[k].id \notin DOMAIN scan.boundingboxes
     /\ DOMAIN scan.visibleBoxesLabel = ObjectIds(dataPtr.buffer)

\* a frame in which one object fails a condition and another gets its box
C17_Witness ==
  /\ scan.ran /\ scan.type \in {BBT_FULLBOX2D, BBT_BOX3D}
  /\ \E k \in 1..Len(items) :
       /\ ~VisibleInFrustum(k)
       /\ items[k].id \notin DOMAIN scan.boundingboxes
  /\ \E k \in 1..Len(items) :
       /\ VisibleInFrustum(k)
       /\ items[k].id \in DOMAIN scan.boundingboxes
       /\ scan.boundingboxes[items[k].id].label = scan.visibleBoxesLabel[items[k].id]

----------------------------------------------------------------------------
(* The box type *)

\* Type()
Type == dataPtr.type

\* the output of the one pipeline of type t run on the frame buf with the
\* parent names, appended to the output out as the pipelines append
PipelineOutput(t, out, buf, names) ==
  LET d == [NewDataPtr EXCEPT !.type = t, !.outputBoxes = out, !.buffer = buf]
  IN  IF t = BBT_VISIBLEBOX2D THEN VisibleBoundingBoxes(d, names).outputBoxes
      ELSE IF t = BBT_FULLBOX2D THEN FullBoundingBoxes(d, names).outputBoxes
      ELSE BoundingBoxes3D(d, names).outputBoxes

----------------------------------------------------------------------------
(* Properties of the drawing calls *)

\* the pixel (x, y) of the image
CanvasAt(data, x, y) == data[y * CanvasWidth + x]

\* data is before with exactly the pixels of outline set to the outline colour
OnlyOutlineDrawn(before, data, outline) ==
  \A px \in CanvasPixels :
    CanvasAt(data, px[1], px[2])
      = IF px \in outline THEN Green ELSE CanvasAt(before, px[1], px[2])

\* the corners of the drawn box: centre -/+ size / 2, and their truncations
DrawnMin(axis) == LowCorner(draw.box, axis)

DrawnMax(axis) == HighCorner(draw.box, axis)

TruncMin(axis) == DrawnMin(axis)[1] \div DrawnMin(axis)[2]

TruncMax(axis) == DrawnMax(axis)[1] \div DrawnMax(axis)[2]

\* the outline with both runs ending before the truncated maximum
TruncatedOutline ==
  {px \in CanvasPixels :
     \/ /\ px[2] \in {TruncMin(2), TruncMax(2)}
        /\ TruncMin(1) <= px[1] /\ px[1] < TruncMax(1)
     \/ /\ px[1] \in {TruncMin(1), TruncMax(1)}
        /\ TruncMin(2) <= px[2] /\ px[2] < TruncMax(2)}

\* the outline with both runs ending before the maximum itself
Outline ==
  {px \in CanvasPixels :
     \/ /\ px[2] \in {TruncMin(2), TruncMax(2)}
        /\ TruncMin(1) <= px[1] /\ RLt(I(px[1]), DrawnMax(1))
     \/ /\ px[1] \in {TruncMin(1), TruncMax(1)}
        /\ TruncMin(2) <= px[2] /\ RLt(I(px[2]), DrawnMax(2))}

\* C19 as stated: DrawBoundingBox on a 2D box inside the image, (minX, minY)
\* and (maxX, maxY) being the truncated centre -/+ size / 2, sets to (0, 255, 0)
\* every pixel (x, minY) and (x, maxY) with minX <= x < maxX and every pixel
\* (minX, y) and (maxX, y) with minY <= y < maxY, and no other pixel.
C19_TruncatedOutlineDrawn ==
  draw.pc = "box" => OnlyOutlineDrawn(draw.before, draw.data, TruncatedOutline)

\* C19: DrawBoundingBox on a 2D box inside the image sets to (0, 255, 0) every
\* pixel (x, minY) and (x, maxY) whose x is at least minX and less than the
\* untruncated centre.X + size.X / 2, and every pixel (minX, y) and (maxX, y)
\* whose y is at least minY and less than the untruncated centre.Y + size.Y / 2,
\* and modifies no other pixel: (maxX, maxY) is drawn when a maximum has a
\* fractional part.
C19_OutlineDrawn ==
  draw.pc = "box" => OnlyOutlineDrawn(draw.before, draw.data, Outline)

\* a box with fractional maxima: its corner (maxX, maxY) is drawn, (minX, minY)
\* is drawn and some pixel is left as it was
C19_Witness ==
  /\ draw.pc = "box"
  /\ DrawnMax(1)[2] = 2 /\ DrawnMax(2)[2] = 2
  /\ TruncMin(1) < TruncMax(1) /\ TruncMin(2) < TruncMax(2)
  /\ CanvasAt(draw.data, TruncMax(1), TruncMax(2)) = Green
  /\ CanvasAt(draw.data, TruncMin(1), TruncMin(2)) = Green
  /\ \E px \in CanvasPixels :
       CanvasAt(draw.data, px[1], px[2]) = <<255, 255, 255>>

\* C20: DrawLine between two pixels plots every pixel of the line from the
\* first endpoint to the last endpoint inclusive, one for each coordinate of
\* the dominant axis: a horizontal line across an image of width w, from
\* (0, 0) to (w - 1, 0), is plotted as exactly w pixels.
C20_LineEndpointsInclusive ==
  draw.pc = "line"
  => LET dx == Abs(draw.point2[1] - draw.point1[1])
         dy == Abs(draw.point2[2] - draw.point1[2])
     IN  /\ Len(draw.plotted) = Max(dx, dy) + 1
         /\ \E i \in DOMAIN draw.plotted : draw.plotted[i] = draw.point1
         /\ \E i \in DOMAIN draw.plotted : draw.plotted[i] = draw.point2
         /\ \A i \in DOMAIN draw.plotted :
              CanvasAt(draw.data, draw.plotted[i][1], draw.plotted[i][2]) = Green

\* C21: DrawBoundingBox on a 3D box of which at least one of the 8 camera-space
\* corner vertices has Z > 0 leaves the whole pixel buffer unchanged, whichever
\* corner it is and wherever the other corners lie; no edge of such a box is
\* clipped or drawn.
C21_BehindCameraNotDrawn ==
  (draw.pc = "box3d" /\ \E i \in DOMAIN draw.vertices : draw.vertices[i].z > 0)
  => /\ draw.data = draw.before
     /\ draw.clippedVertices = <<>>
     /\ draw.plotted = <<>>

\* the last corner alone is behind the camera, on a white image
C21_Witness ==
  /\ draw.pc = "box3d"
  /\ {i \in DOMAIN draw.vertices : draw.vertices[i].z > 0} = {8}
  /\ draw.before = Canvas(<<255, 255, 255>>)
  /\ draw.data = draw.before

----------------------------------------------------------------------------
(* Properties of the id channels *)

\* C22: for every id in [0, 65535], encoding it as idHigh = id div 256 and
\* idLow = id mod 256 and decoding it with idHigh * 256 + idLow, as the scanner
\* does, recovers the id exactly; and every id decoded from a buffer of 8-bit
\* channels lies in [0, 65535].
C22_IdRoundTrip ==
  /\ codec.pc = "read" => codec.ogreId = codec.id
  /\ codec.pc \in {"read", "pixel"} => codec.ogreId \in OgreIds
  /\ codec.pc = "written" => codec.ogreId1 \in Bytes /\ codec.ogreId2 \in Bytes

\* the largest id, whose two channels differ from those of its byte-swapped
\* id, has been written and read back
C22_Witness ==
  /\ codec.pc = "read"
  /\ codec.id = 65534
  /\ codec.ogreId1 = 255 /\ codec.ogreId2 = 254
  /\ codec.ogreId = 65534

----------------------------------------------------------------------------
(* Enclosure of an object's pixels by its visible-pixel box *)

\* the box spans the pixel coordinate v on the axis
SpansPixel(box, axis, v) ==
  RLe(LowCorner(box, axis), I(v)) /\ RLe(I(v), HighCorner(box, axis))

\* C27: every visible-pixel 2D box produced by VisibleBoundingBoxes encloses all
\* pixels of its object: for every pixel (x, y) decoded to the object's id,
\* centre.X - size.X/2 <= x <= centre.X + size.X/2 and
\* centre.Y - size.Y/2 <= y <= centre.Y + size.Y/2, for objects of every width
\* and height (odd or even pixel extents).
C27_BoxEnclosesPixels ==
  (scan.ran /\ scan.type = BBT_VISIBLEBOX2D)
  => \A ogreId \in DOMAIN scan.boundingboxes :
       \A px \in PixelsOfId(dataPtr.buffer, ogreId) :
         /\ SpansPixel(scan.boundingboxes[ogreId], 1, px[1])
         /\ SpansPixel(scan.boundingboxes[ogreId], 2, px[2])

----------------------------------------------------------------------------
(* Containment of the member boxes by the merged box *)

\* outer spans inner on both image axes
ContainsBox(outer, inner) ==
  \A axis \in {1, 2} :
    /\ RLe(LowCorner(outer, axis), LowCorner(inner, axis))
    /\ RLe(HighCorner(inner, axis), HighCorner(outer, axis))

\* the width and the height of box are differences max - min that did not wrap
SizeNotWrapped(box) ==
  \A axis \in {1, 2} : box.size[axis] \in {I(n) : n \in 0..(MaxCentre + MaxSize)}

\* C28: the box returned by MergeBoxes2D contains every member box of its
\* group: merged centre - size/2 <= member centre - size/2 and
\* member centre + size/2 <= merged centre + size/2 on both axes, for members
\* with any non-negative centre and size, and the unsigned subtraction
\* max - min never wraps.
C28_MergedContainsMembers ==
  merge.pc # "idle"
  => /\ SizeNotWrapped(merge.whole)
     /\ \A i \in DOMAIN merge.boxes : ContainsBox(merge.whole, merge.boxes[i])

----------------------------------------------------------------------------
(* The pixels of a line *)

\* the points of a sequence of plotted points
PlottedSet(plotted) == {plotted[i] : i \in DOMAIN plotted}

\* px lies in the axis-aligned rectangle spanned by a and b
InSpannedRectangle(px, a, b) ==
  \A axis \in {1, 2} :
    Min(a[axis], b[axis]) <= px[axis] /\ px[axis] <= Max(a[axis], b[axis])

\* C29: for every pair of endpoints, DrawLine writes only pixels inside the
\* axis-aligned rectangle spanned by the two endpoints, plots exactly
\* max(|dx|, |dy|) pixels with the minor-axis coordinate changing by at most 1
\* per step, and plots the same pixel set when the two endpoints are swapped.
C29_LineWithinRectangle ==
  draw.pc = "line"
  => LET dx == Abs(draw.point2[1] - draw.point1[1])
         dy == Abs(draw.point2[2] - draw.point1[2])
         minor == IF dy < dx THEN 2 ELSE 1
     IN  /\ \A px \in CanvasPixels :
              CanvasAt(draw.data, px[1], px[2]) # CanvasAt(draw.before, px[1], px[2])
              => InSpannedRectangle(px, draw.point1, draw.point2)
         /\ \A i \in DOMAIN draw.plotted :
              InSpannedRectangle(draw.plotted[i], draw.point1, draw.point2)
         /\ Len(draw.plotted) = Max(dx, dy)
         /\ Cardinality(PlottedSet(draw.plotted)) = Max(dx, dy)
         /\ \A i \in 1..(Len(draw.plotted) - 1) :
              /\ Abs(draw.plotted[i + 1][minor] - draw.plotted[i][minor]) <= 1
              /\ draw.plotted[i + 1][3 - minor] = draw.plotted[i][3 - minor] + 1
         /\ PlottedSet(DrawLine(draw.point2, draw.point1)) = PlottedSet(draw.plotted)

\* a sloped line given from its right end to its left end: three pixels, on
\* two rows
C29_Witness ==
  /\ draw.pc = "line"
  /\ draw.point1[1] > draw.point2[1]
  /\ draw.point1[2] < draw.point2[2]
  /\ Len(draw.plotted) = 3
  /\ \E i \in 1..2 : draw.plotted[i + 1][2] # draw.plotted[i][2]
  /\ \E px \in CanvasPixels :
       CanvasAt(draw.data, px[1], px[2]) # CanvasAt(draw.before, px[1], px[2])

----------------------------------------------------------------------------
(* The merge as a partition of the per-object boxes by parent name *)

\* the groups the first loop of the merge has made of the frame's boxes: for
\* each parent name the ogre ids (3D) or the boxes (2D) pushed under it
FrameGroups ==
  IF scan.type = BBT_BOX3D THEN scan.parentNameToOgreIds ELSE scan.parentNameToBoxes

\* the members the group of parent n is to hold, in key order
MembersOfParent(n) ==
  IF scan.type = BBT_BOX3D THEN IdsOfParent(n)
  ELSE [i \in 1..Len(IdsOfParent(n)) |-> scan.boundingboxes[IdsOfParent(n)[i]]]

RECURSIVE TotalMembers(_)
\* the number of members of the groups of the parent names S
TotalMembers(S) ==
  IF S = {} THEN 0
  ELSE LET n == CHOOSE m \in S : TRUE
       IN  Len(FrameGroups[n]) + TotalMembers(S \ {n})

\* the ways of matching the emitted boxes with the parent names, one to one
GroupMatchings ==
  {f \in [1..Len(dataPtr.outputBoxes) -> GroupNames] :
     \A i, j \in 1..Len(dataPtr.outputBoxes) : f[i] = f[j] => i = j}

\* C30: for every frame processed from an empty output sequence, merging
\* partitions the per-object boxes by parent name: the number of emitted boxes
\* equals the number of distinct parent names among the frame's per-object
\* boxes, each per-object box contributes to exactly one emitted box, and boxes
\* of objects registered under different parent names are never combined into
\* one emitted box.
C30_MergePartitionsByParent ==
  (op = "PostRender" /\ connections > 0 /\ scan.outputBefore = <<>>)
  => /\ Len(dataPtr.outputBoxes) = Cardinality(GroupNames)
     /\ DOMAIN FrameGroups = GroupNames
     /\ \A n \in GroupNames : FrameGroups[n] = MembersOfParent(n)
     /\ TotalMembers(GroupNames) = Cardinality(DOMAIN scan.boundingboxes)
     /\ \E f \in GroupMatchings :
          \A i \in 1..Len(dataPtr.outputBoxes) : dataPtr.outputBoxes[i] = GroupBox(f[i])

\* a frame of two objects of one parent, merged into one box
C30_Witness ==
  /\ op = "PostRender" /\ connections > 0 /\ scan.outputBefore = <<>>
  /\ Cardinality(DOMAIN scan.boundingboxes) = 2
  /\ Cardinality(GroupNames) = 1
  /\ Len(dataPtr.outputBoxes) = 1
  /\ \E n \in GroupNames : Len(FrameGroups[n]) = 2

====
